---- MODULE Spec2Model ----
(***************************************************************************)
(* Package-validation workflow of lucas-brain                              *)
(* (src/unnamed/part_013, lines 1-1740: the latest variant of              *)
(* src/mastra/workflows/package-validation.ts).                            *)
(*                                                                         *)
(* The workflow is prepare-docs -> foreach(analyze-doc, concurrency 5) ->  *)
(* cross-reference -> final-verdict -> record-package.  Strings are        *)
(* sequences of one-character strings so that the string helpers of the    *)
(* source (toLowerCase, trim, includes, split, regex prefixes, parseFloat)  *)
(* are computed rather than assumed.                                       *)
(***************************************************************************)
EXTENDS Integers, Sequences, FiniteSets, TLC

VARIABLES
    pc,             \* the step the workflow runs next, or "success" / "failed"
    documents,      \* workflow input: sequence of [type, text]
    extractorReply, \* what haikuExtractor.generate will do for each document
    docInputs,      \* output of prepare-docs
    status,         \* foreach: per document "pending" | "running" | "done"
    analyzed,       \* foreach: per document its DocumentResult (or Null)
    xref,           \* output of cross-reference (or Null)
    comparator,     \* what the semantic comparator did during cross-reference
    today,          \* the clock value new Date() read by cross-reference
    issuesSoFar,    \* cross-reference's crossRefIssues while it awaits the comparator
    settled,        \* the compared documents whose comparator call has settled, in that order
    verdict,        \* output of final-verdict (or Null)
    persistence,    \* what the embedding request and the insert did
    output,         \* the workflow's result (or Null)
    invoked,        \* a helper function called on its own: its name and arguments
    returned        \* what that call returned (or nothing yet)

vars == <<pc, documents, extractorReply, docInputs, status, analyzed, xref,
          comparator, today, issuesSoFar, settled, verdict, persistence,
          output, invoked, returned>>

\* JavaScript undefined / null for a string-valued field.  ("undefined" is
\* not a character, so no string equals it.)
Null == <<"undefined">>

\* A step output that does not exist yet is None; one that does is <<value>>.
None == <<>>
Some(x) == <<x>>

-----------------------------------------------------------------------------
(* String helpers of the JavaScript runtime, on character sequences.        *)

UpperChars == <<"A","B","C","D","E","F","G","H","I","J","K","L","M",
                "N","O","P","Q","R","S","T","U","V","W","X","Y","Z">>
LowerChars == <<"a","b","c","d","e","f","g","h","i","j","k","l","m",
                "n","o","p","q","r","s","t","u","v","w","x","y","z">>
DigitChars == <<"0","1","2","3","4","5","6","7","8","9">>
Whitespace == {" ", "\t", "\n"}

IsUpper(c) == \E i \in 1..Len(UpperChars) : UpperChars[i] = c
IsDigit(c) == \E i \in 1..Len(DigitChars) : DigitChars[i] = c
DigitVal(c) == (CHOOSE i \in 1..Len(DigitChars) : DigitChars[i] = c) - 1

ToLowerChar(c) ==
    IF IsUpper(c)
    THEN LowerChars[CHOOSE i \in 1..Len(UpperChars) : UpperChars[i] = c]
    ELSE c

\* String.prototype.toLowerCase
ToLowerCase(s) == [i \in 1..Len(s) |-> ToLowerChar(s[i])]

\* String.prototype.includes
Includes(s, t) ==
    \E i \in 0..(Len(s) - Len(t)) : SubSeq(s, i + 1, i + Len(t)) = t

\* The first n characters of s (all of s when it is shorter).
Take(s, n) == SubSeq(s, 1, IF Len(s) < n THEN Len(s) ELSE n)

StartsWith(s, t) == Len(s) >= Len(t) /\ SubSeq(s, 1, Len(t)) = t

RECURSIVE TrimStart(_)
TrimStart(s) ==
    IF s # <<>> /\ Head(s) \in Whitespace THEN TrimStart(Tail(s)) ELSE s

RECURSIVE TrimEnd(_)
TrimEnd(s) ==
    IF s # <<>> /\ s[Len(s)] \in Whitespace
    THEN TrimEnd(SubSeq(s, 1, Len(s) - 1))
    ELSE s

\* String.prototype.trim
Trim(s) == TrimEnd(TrimStart(s))

\* s.replace(/,/g, "")
RECURSIVE RemoveCommas(_)
RemoveCommas(s) ==
    IF s = <<>> THEN <<>>
    ELSE IF Head(s) = "," THEN RemoveCommas(Tail(s))
    ELSE <<Head(s)>> \o RemoveCommas(Tail(s))

\* The longest prefix of s made of characters satisfying the class.
RECURSIVE TakeWhileNumeric(_)
TakeWhileNumeric(s) ==
    IF s # <<>> /\ (IsDigit(Head(s)) \/ Head(s) = ".")
    THEN <<Head(s)>> \o TakeWhileNumeric(Tail(s))
    ELSE <<>>

RECURSIVE TakeWhileDigits(_)
TakeWhileDigits(s) ==
    IF s # <<>> /\ IsDigit(Head(s))
    THEN <<Head(s)>> \o TakeWhileDigits(Tail(s))
    ELSE <<>>

\* s.match(/[\d.]+/): the first maximal run of digits and dots, or Null.
RECURSIVE FirstNumericRun(_)
FirstNumericRun(s) ==
    IF s = <<>> THEN Null
    ELSE IF IsDigit(Head(s)) \/ Head(s) = "." THEN TakeWhileNumeric(s)
    ELSE FirstNumericRun(Tail(s))

RECURSIVE DigitsToNat(_)
DigitsToNat(ds) ==
    IF ds = <<>> THEN 0
    ELSE 10 * DigitsToNat(SubSeq(ds, 1, Len(ds) - 1)) + DigitVal(ds[Len(ds)])

\* Numbers are kept in hundredths (two decimals, the precision of the
\* amounts the documents print); NoNumber stands for null and for NaN,
\* which every caller treats alike (both are falsy).
NoNumber == -1

\* parseFloat on a run of digits and dots: the integer digits, then at most
\* one dot with its digits; NaN when neither part has a digit.
ParseFloat(run) ==
    LET ip   == TakeWhileDigits(run)
        rest == SubSeq(run, Len(ip) + 1, Len(run))
        fp   == IF rest # <<>> /\ Head(rest) = "."
                THEN TakeWhileDigits(Tail(rest)) ELSE <<>>
        fp2  == SubSeq(fp \o <<"0", "0">>, 1, 2)
    IN  IF ip = <<>> /\ fp = <<>> THEN NoNumber
        ELSE 100 * DigitsToNat(ip) + DigitsToNat(fp2)

\* A JavaScript value is truthy unless undefined, "", 0, NaN, null or false.
Truthy(v) == v # Null /\ v # <<>>
TruthyNum(n) == n # NoNumber /\ n # 0

-----------------------------------------------------------------------------
(* Shared schemas.                                                          *)

\* documentTypeEnum, restricted to the document types the modelled rules
\* branch on.
DocumentTypes ==
    {"letter_of_credit", "bill_of_lading", "commercial_invoice",
     "packing_list", "certificate_of_origin", "insurance_certificate",
     "inspection_certificate"}

Verdicts == {"GO", "WAIT", "NO_GO"}
Severities == {"minor", "major", "critical"}

\* extractedDataSchema: every field is optional.  The fields are those the
\* modelled rules read; string fields hold a string or Null, the boolean
\* fields hold "true", "false" or "undefined".
EmptyData ==
    [amount |-> Null, goodsDescription |-> Null,
     expiryDate |-> Null, latestShipmentDate |-> Null, shipmentDate |-> Null,
     vesselName |-> Null, consignee |-> Null, issuingBank |-> Null,
     requiredInspectionCompany |-> Null, inspectionCompany |-> Null,
     insuredValue |-> Null, freightNotation |-> Null, carrierName |-> Null,
     carrierSignature |-> "undefined", shippedOnBoard |-> "undefined",
     quantity |-> Null, quantityTolerance |-> Null,
     portOfLoading |-> Null, portOfDischarge |-> Null,
     packingListItems |-> None, packingListTotalNet |-> NoNumber,
     issueDate |-> Null, inspectionDate |-> Null]

\* documentResultSchema (analysis, free prose no rule reads, is left out).
IsDocumentResult(d) ==
    /\ d.type \in DocumentTypes
    /\ d.verdict \in Verdicts
    /\ \A i \in 1..Len(d.issues) : d.issues[i].severity \in Severities

-----------------------------------------------------------------------------
(* Deterministic date extraction.                                           *)

IsISODate(s) ==
    /\ Len(s) = 10
    /\ \A i \in {1, 2, 3, 4, 6, 7, 9, 10} : IsDigit(s[i])
    /\ s[5] = "-" /\ s[8] = "-"

\* s.padStart(2, "0")
PadStart2(s) == IF Len(s) < 2 THEN <<"0">> \o s ELSE s

\* /^(\d{1,2})[\/\-](\d{1,2})[\/\-](\d{4})$/
NumericDateParts(s) ==
    LET d    == Take(TakeWhileDigits(s), 2)
        r1   == SubSeq(s, Len(d) + 1, Len(s))
        m    == IF r1 = <<>> THEN <<>>
                ELSE Take(TakeWhileDigits(Tail(r1)), 2)
        r2   == SubSeq(r1, Len(m) + 2, Len(r1))
        y    == IF r2 = <<>> THEN <<>> ELSE Tail(r2)
    IN  IF /\ Len(d) >= 1 /\ r1 # <<>> /\ Head(r1) \in {"/", "-"}
           /\ Len(m) >= 1 /\ r2 # <<>> /\ Head(r2) \in {"/", "-"}
           /\ Len(y) = 4 /\ \A i \in 1..4 : IsDigit(y[i])
        THEN <<d, m, y>>
        ELSE <<>>

\* MONTH_MAP[name]: the month's two digits.  MONTH_MAP is an object literal,
\* so a name it does not define is looked up on Object.prototype, which
\* holds one all-lower-case, all-letter name: "constructor", the function
\* Object; a template literal renders it as its source text.
MONTH_MAP(name) ==
    CASE name \in {<<"j", "a", "n", "u", "a", "r", "y">>, <<"j", "a", "n">>}             -> <<"0", "1">>
      [] name \in {<<"f", "e", "b", "r", "u", "a", "r", "y">>, <<"f", "e", "b">>}            -> <<"0", "2">>
      [] name \in {<<"m", "a", "r", "c", "h">>, <<"m", "a", "r">>}               -> <<"0", "3">>
      [] name \in {<<"a", "p", "r", "i", "l">>, <<"a", "p", "r">>}               -> <<"0", "4">>
      [] name = <<"m", "a", "y">>                             -> <<"0", "5">>
      [] name \in {<<"j", "u", "n", "e">>, <<"j", "u", "n">>}                -> <<"0", "6">>
      [] name \in {<<"j", "u", "l", "y">>, <<"j", "u", "l">>}                -> <<"0", "7">>
      [] name \in {<<"a", "u", "g", "u", "s", "t">>, <<"a", "u", "g">>}              -> <<"0", "8">>
      [] name \in {<<"s", "e", "p", "t", "e", "m", "b", "e", "r">>, <<"s", "e", "p">>, <<"s", "e", "p", "t">>}  -> <<"0", "9">>
      [] name \in {<<"o", "c", "t", "o", "b", "e", "r">>, <<"o", "c", "t">>}             -> <<"1", "0">>
      [] name \in {<<"n", "o", "v", "e", "m", "b", "e", "r">>, <<"n", "o", "v">>}            -> <<"1", "1">>
      [] name \in {<<"d", "e", "c", "e", "m", "b", "e", "r">>, <<"d", "e", "c">>}            -> <<"1", "2">>
      [] name = <<"c", "o", "n", "s", "t", "r", "u", "c", "t", "o", "r">> -> <<"f", "u", "n", "c", "t", "i", "o", "n", " ", "O", "b", "j", "e", "c", "t", "(", ")", " ", "{", " ", "[", "n", "a", "t", "i", "v", "e", " ", "c", "o", "d", "e", "]", " ", "}">>
      [] OTHER                                     -> Null

Letters ==
    {UpperChars[i] : i \in 1..Len(UpperChars)} \cup {LowerChars[i] : i \in 1..Len(LowerChars)}
Digits == {DigitChars[i] : i \in 1..Len(DigitChars)}

\* The length of the longest run of characters of class that starts at s[i].
Run(s, i, class) ==
    LET ends == {j \in (i - 1)..Len(s) : \A k \in i..j : s[k] \in class}
    IN  (CHOOSE j \in ends : \A k \in ends : k <= j) - i + 1

\* The two unanchored expressions are sequences of character classes no two
\* neighbours of which share a character, so each element but the last has
\* to take the whole run of its class: lo and hi bound the length of that
\* run, and the last element, \d{4}, takes the first 4 of a run of at
\* least 4.
\* /(\d{1,2})\s+([A-Za-z]+)\s+(\d{4})/
DayFirstPattern ==
    <<[class |-> Digits, lo |-> 1, hi |-> 2, take |-> 0],
      [class |-> Whitespace, lo |-> 1, hi |-> 1000, take |-> 0],
      [class |-> Letters, lo |-> 1, hi |-> 1000, take |-> 0],
      [class |-> Whitespace, lo |-> 1, hi |-> 1000, take |-> 0],
      [class |-> Digits, lo |-> 4, hi |-> 1000, take |-> 4]>>

\* /([A-Za-z]+)\s+(\d{1,2}),?\s+(\d{4})/
MonthFirstPattern ==
    <<[class |-> Letters, lo |-> 1, hi |-> 1000, take |-> 0],
      [class |-> Whitespace, lo |-> 1, hi |-> 1000, take |-> 0],
      [class |-> Digits, lo |-> 1, hi |-> 2, take |-> 0],
      [class |-> {","}, lo |-> 0, hi |-> 1, take |-> 0],
      [class |-> Whitespace, lo |-> 1, hi |-> 1000, take |-> 0],
      [class |-> Digits, lo |-> 4, hi |-> 1000, take |-> 4]>>

\* A match of the pattern that starts at s[i]: where each of its elements
\* starts, then where the match ends; <<>> when there is none.
RECURSIVE MatchAt(_, _, _)
MatchAt(s, i, pattern) ==
    IF pattern = <<>> THEN <<i>>
    ELSE LET e == Head(pattern)
             n == Run(s, i, e.class)
         IN  IF n < e.lo \/ n > e.hi THEN <<>>
             ELSE LET rest == MatchAt(s, i + (IF e.take > 0 THEN e.take ELSE n),
                                      Tail(pattern))
                  IN  IF rest = <<>> THEN <<>> ELSE <<i>> \o rest

\* s.match(pattern): the leftmost match, <<>> when there is none.
Leftmost(matches) ==
    IF matches = {} THEN <<>>
    ELSE CHOOSE m \in matches : \A o \in matches : m[1] <= o[1]

Match(s, pattern) ==
    Leftmost({MatchAt(s, i, pattern) : i \in 1..Len(s)} \ {<<>>})

\* The text of the element of a match that starts at from and ends before to.
Group(s, from, to) == SubSeq(s, from, to - 1)

\* `${y}-${m}-${d.padStart(2, "0")}` when MONTH_MAP knows the month name.
MonthNameDate(d, monthName, y) ==
    IF Truthy(MONTH_MAP(ToLowerCase(monthName)))
    THEN y \o <<"-">> \o MONTH_MAP(ToLowerCase(monthName)) \o <<"-">> \o PadStart2(d)
    ELSE Null

DayFirstDate(s, m) ==
    IF m = <<>> THEN Null
    ELSE MonthNameDate(Group(s, m[1], m[2]), Group(s, m[3], m[4]), Group(s, m[5], m[6]))

MonthFirstDate(s, m) ==
    IF m = <<>> THEN Null
    ELSE MonthNameDate(Group(s, m[3], m[4]), Group(s, m[1], m[2]), Group(s, m[6], m[7]))

\* The first of the two results that is a date.
FirstDate(a, b) == IF a # Null THEN a ELSE b

NumericDate(p) == p[3] \o <<"-">> \o PadStart2(p[2]) \o <<"-">> \o PadStart2(p[1])

parseToISODate(dateStr) ==
    IF ~Truthy(dateStr) THEN Null
    ELSE LET s == Trim(dateStr)
         IN  IF IsISODate(s) THEN s
             ELSE IF NumericDateParts(s) # <<>> THEN NumericDate(NumericDateParts(s))
             ELSE FirstDate(DayFirstDate(s, Match(s, DayFirstPattern)),
                            MonthFirstDate(s, Match(s, MonthFirstPattern)))

\* A document text is modelled by the value that follows each of the three
\* labels the scan looks for (Null when the label does not occur).
extractDatesFromText(text) ==
    [latestShipmentDate |-> parseToISODate(text.latestShipment),
     expiryDate         |-> parseToISODate(text.expiry),
     shipmentDate       |-> parseToISODate(text.shippedOnBoard)]

-----------------------------------------------------------------------------
(* Step 1: prepare-docs.                                                    *)

ClientEmail == "client"

prepareDocsExecute(docs) ==
    [i \in 1..Len(docs) |->
        [type |-> docs[i].type, text |-> docs[i].text,
         clientEmail |-> ClientEmail]]

-----------------------------------------------------------------------------
(* Step 2: analyze-doc.                                                     *)
(* A reply of the extraction collaborator is                                *)
(*   [kind |-> "no_agent"]   mastra.getAgent returns nothing                *)
(*   [kind |-> "rejects"]    extractor.generate rejects                     *)
(*   [kind |-> "text", json |-> "none" | "malformed" | "object", parsed]    *)
(* where json says whether response.text holds no {...}, a {...} that       *)
(* JSON.parse rejects, or an object, and parsed is that object:             *)
(*   [verdict: a string, "" or "undefined"; issues, extractedData: None or  *)
(*    <<value>>].                                                           *)

\* Mutant of OverrideDates: a date the collaborator returned is kept, the
\* scanned date only fills a field the collaborator left out.
OverrideDatesKeepingReply(extractedData, det) ==
    [extractedData EXCEPT
        !.latestShipmentDate = IF Truthy(@) THEN @ ELSE det.latestShipmentDate,
        !.expiryDate = IF Truthy(@) THEN @ ELSE det.expiryDate,
        !.shipmentDate = IF Truthy(@) THEN @ ELSE det.shipmentDate]

OverrideDates(extractedData, det) ==
    [extractedData EXCEPT
        !.latestShipmentDate =
            IF Truthy(det.latestShipmentDate) THEN det.latestShipmentDate ELSE @,
        !.expiryDate =
            IF Truthy(det.expiryDate) THEN det.expiryDate ELSE @,
        !.shipmentDate =
            IF Truthy(det.shipmentDate) THEN det.shipmentDate ELSE @]

\* The result of analyzeDocStep.execute: [threw |-> TRUE] or
\* [threw |-> FALSE, value |-> the object returned].
analyzeDocExecute(inputData, reply) ==
    IF reply.kind \in {"no_agent", "rejects"}
    THEN [threw |-> TRUE, value |-> None]
    ELSE LET deterministicDates == extractDatesFromText(inputData.text) IN
         IF reply.json = "object"
         THEN LET parsed == reply.parsed
                  extractedData ==
                      IF parsed.extractedData = None THEN EmptyData
                      ELSE parsed.extractedData[1]
              IN  [threw |-> FALSE,
                   value |-> Some(
                     [type |-> inputData.type,
                      verdict |-> IF parsed.verdict \in {"undefined", ""}
                                  THEN "WAIT" ELSE parsed.verdict,
                      issues |-> IF parsed.issues = None THEN <<>>
                                 ELSE parsed.issues[1],
                      extractedData |->
                          OverrideDates(extractedData, deterministicDates),
                      rawText |-> inputData.text])]
         ELSE [threw |-> FALSE,
               value |-> Some(
                 [type |-> inputData.type,
                  verdict |-> "WAIT",
                  issues |-> <<>>,
                  extractedData |->
                      [EmptyData EXCEPT
                          !.latestShipmentDate =
                              deterministicDates.latestShipmentDate,
                          !.expiryDate = deterministicDates.expiryDate,
                          !.shipmentDate = deterministicDates.shipmentDate],
                  rawText |-> inputData.text])]

-----------------------------------------------------------------------------
(* Step 3: cross-reference.  Helpers.                                       *)

\* documentResults.find((d) => d.type === type): None or <<document>>.
FindDoc(documentResults, type) ==
    LET hits == {i \in 1..Len(documentResults) : documentResults[i].type = type}
    IN  IF hits = {} THEN None
        ELSE Some(documentResults[CHOOSE i \in hits : \A j \in hits : i <= j])

\* doc?.extractedData: the fields of an absent document are all undefined.
DataOf(doc) == IF doc = None THEN EmptyData ELSE doc[1].extractedData

\* doc.type.replace(/_/g, " ").toUpperCase()
DocName(type) ==
    CASE type = "letter_of_credit"       -> "LETTER OF CREDIT"
      [] type = "bill_of_lading"         -> "BILL OF LADING"
      [] type = "commercial_invoice"     -> "COMMERCIAL INVOICE"
      [] type = "packing_list"           -> "PACKING LIST"
      [] type = "certificate_of_origin"  -> "CERTIFICATE OF ORIGIN"
      [] type = "insurance_certificate"  -> "INSURANCE CERTIFICATE"
      [] type = "inspection_certificate" -> "INSPECTION CERTIFICATE"
      [] type = "certificate_of_quality" -> "CERTIFICATE OF QUALITY"
      [] type = "certificate_of_quantity" -> "CERTIFICATE OF QUANTITY"

extractAmount(val) ==
    IF ~Truthy(val) THEN NoNumber
    ELSE LET match == FirstNumericRun(RemoveCommas(val))
         IN  IF match = Null THEN NoNumber ELSE ParseFloat(match)

NotSpecifiedValues ==
    {<<>>, <<"n", "/", "a">>, <<"n", "a">>, <<"n", "o", "t", " ", "s", "p", "e", "c", "i", "f", "i", "e", "d">>, <<"n", "o", "t", " ", "a", "p", "p", "l", "i", "c", "a", "b", "l", "e">>, <<"n", "o", "n", "e">>, <<"-">>}

isSpecified(val) ==
    IF ~Truthy(val) THEN FALSE
    ELSE Trim(ToLowerCase(val)) \notin NotSpecifiedValues

\* new Date(s).getTime() in half days since year 0, for the ISO dates the
\* modelled documents carry; any other string is an invalid date (NaN).
DateValue(s) ==
    IF ~IsISODate(s) THEN NoNumber
    ELSE LET y == DigitsToNat(SubSeq(s, 1, 4))
             m == DigitsToNat(SubSeq(s, 6, 7))
             d == DigitsToNat(SubSeq(s, 9, 10))
         IN  IF m \in 1..12 /\ d \in 1..31
             THEN 2 * ((y * 12 + (m - 1)) * 31 + (d - 1))
             ELSE NoNumber

\* The maximal runs of non-whitespace characters: s.split(/\s+/) without
\* the empty strings a leading or trailing blank adds.
RECURSIVE TakeWord(_)
TakeWord(s) ==
    IF s # <<>> /\ Head(s) \notin Whitespace
    THEN <<Head(s)>> \o TakeWord(Tail(s))
    ELSE <<>>

RECURSIVE SplitWhitespace(_)
SplitWhitespace(s) ==
    LET t == TrimStart(s)
        w == TakeWord(t)
    IN  IF t = <<>> THEN <<>>
        ELSE <<w>> \o SplitWhitespace(SubSeq(t, Len(w) + 1, Len(t)))

\* v.replace(/^(mv|m\/v|mt|m\.v\.)\s*/i, "").trim()
VesselPrefixes == <<<<"m", "v">>, <<"m", "/", "v">>, <<"m", "t">>, <<"m", ".", "v", ".">>>>

normalizeVessel(v) ==
    LET lv   == ToLowerCase(v)
        hits == {i \in 1..Len(VesselPrefixes) : StartsWith(lv, VesselPrefixes[i])}
    IN  IF hits = {} THEN Trim(v)
        ELSE LET p == VesselPrefixes[CHOOSE i \in hits : \A j \in hits : i <= j]
             IN  Trim(TrimStart(SubSeq(v, Len(p) + 1, Len(v))))

Issue(field, docs, values, severity, description) ==
    [field |-> field, documents |-> docs, values |-> values,
     severity |-> severity, description |-> description]

\* Mutant of PaymentModeOf: only the first document is looked at.
PaymentModeOfFirst(documentResults) ==
    IF Len(documentResults) > 0 /\ documentResults[1].type = "letter_of_credit"
    THEN "lc" ELSE "no_lc"

\* const paymentMode = hasLC ? "lc" : "no_lc"
PaymentModeOf(documentResults) ==
    IF FindDoc(documentResults, "letter_of_credit") # None THEN "lc" ELSE "no_lc"

-----------------------------------------------------------------------------
(* Step 3: cross-reference.  The rules, in the order the step runs them;    *)
(* each yields the issues it pushes.  The rules over fields outside         *)
(* EmptyData (beneficiary, LC number, LOI / WOT / export licence /          *)
(* ownership / tank certificates, ullage and invoice sums) push only        *)
(* issues of their own fields and are not part of this development yet.     *)

\* Mutant of AmountIssues: the invoice amount alone is enough.
AmountIssuesFromOne(documentResults) ==
    LET lc      == FindDoc(documentResults, "letter_of_credit")
        invoice == FindDoc(documentResults, "commercial_invoice")
        lcAmt   == extractAmount(DataOf(lc).amount)
        invAmt  == extractAmount(DataOf(invoice).amount)
        amounts == (IF TruthyNum(lcAmt) THEN <<"LC">> ELSE <<>>)
                   \o (IF TruthyNum(invAmt) THEN <<"Invoice">> ELSE <<>>)
    IN  IF Len(amounts) >= 1 /\ invAmt > lcAmt
        THEN <<Issue("amount", <<"LC", "Invoice">>, amounts, "critical",
                     <<"Invoice amount exceeds LC amount">>)>>
        ELSE <<>>

\* Mutant of AmountIssues: an invoice amount equal to the LC's is reported.
AmountIssuesNotBelow(documentResults) ==
    LET lc      == FindDoc(documentResults, "letter_of_credit")
        invoice == FindDoc(documentResults, "commercial_invoice")
        lcAmt   == extractAmount(DataOf(lc).amount)
        invAmt  == extractAmount(DataOf(invoice).amount)
        amounts == (IF TruthyNum(lcAmt) THEN <<"LC">> ELSE <<>>)
                   \o (IF TruthyNum(invAmt) THEN <<"Invoice">> ELSE <<>>)
    IN  IF Len(amounts) >= 2 /\ invAmt >= lcAmt
        THEN <<Issue("amount", <<"LC", "Invoice">>, amounts, "critical",
                     <<"Invoice amount exceeds LC amount">>)>>
        ELSE <<>>

\* Cross-reference amounts (invoice must not exceed the LC).
AmountIssues(documentResults) ==
    LET lc      == FindDoc(documentResults, "letter_of_credit")
        invoice == FindDoc(documentResults, "commercial_invoice")
        lcAmt   == extractAmount(DataOf(lc).amount)
        invAmt  == extractAmount(DataOf(invoice).amount)
        amounts == (IF TruthyNum(lcAmt) THEN <<"LC">> ELSE <<>>)
                   \o (IF TruthyNum(invAmt) THEN <<"Invoice">> ELSE <<>>)
    IN  IF Len(amounts) >= 2 /\ invAmt > lcAmt
        THEN <<Issue("amount", <<"LC", "Invoice">>, amounts, "critical",
                     <<"Invoice amount exceeds LC amount">>)>>
        ELSE <<>>

\* Cross-reference ports.
EndsWith(s, t) ==
    Len(t) <= Len(s) /\ SubSeq(s, Len(s) - Len(t) + 1, Len(s)) = t

\* s.replace(/<lead>\s*(w1|w2|...)\.?$/i, "") on a lower-case s, where
\* <lead> is ",?" when comma is TRUE and nothing otherwise: the word at the
\* end (before an optional full stop) goes, with the blanks before it and,
\* when comma is TRUE, one comma before those.
StripAtEnd(s, words, comma) ==
    LET body == IF s # <<>> /\ s[Len(s)] = "." THEN SubSeq(s, 1, Len(s) - 1) ELSE s
        hits == {w \in words : EndsWith(body, w)}
    IN  IF hits = {} THEN s
        ELSE LET w    == CHOOSE x \in hits : \A y \in hits : Len(x) >= Len(y)
                 kept == TrimEnd(SubSeq(body, 1, Len(body) - Len(w)))
             IN  IF comma /\ kept # <<>> /\ kept[Len(kept)] = ","
                 THEN SubSeq(kept, 1, Len(kept) - 1)
                 ELSE kept

Countries ==
    {<<"u", "a", "e">>, <<"i", "n", "d", "i", "a">>, <<"c", "h", "i", "n", "a">>, <<"k", "u", "w", "a", "i", "t">>, <<"q", "a", "t", "a", "r">>, <<"s", "a", "u", "d", "i", " ", "a", "r", "a", "b", "i", "a">>, <<"o", "m", "a", "n">>,
     <<"b", "a", "h", "r", "a", "i", "n">>, <<"s", "i", "n", "g", "a", "p", "o", "r", "e">>, <<"m", "a", "l", "a", "y", "s", "i", "a">>, <<"i", "n", "d", "o", "n", "e", "s", "i", "a">>, <<"u", "s", "a">>, <<"u", "k">>,
     <<"g", "e", "r", "m", "a", "n", "y">>, <<"n", "e", "t", "h", "e", "r", "l", "a", "n", "d", "s">>, <<"f", "r", "a", "n", "c", "e">>, <<"i", "t", "a", "l", "y">>, <<"s", "p", "a", "i", "n">>}

PortSuffixes ==
    {<<"t", "e", "r", "m", "i", "n", "a", "l">>, <<"p", "o", "r", "t">>, <<"h", "a", "r", "b", "o", "u", "r">>, <<"h", "a", "r", "b", "o", "r">>, <<"a", "n", "c", "h", "o", "r", "a", "g", "e">>, <<"r", "o", "a", "d", "s", "t", "e", "a", "d">>}

\* s.split(",")[0]
RECURSIVE BeforeComma(_)
BeforeComma(s) ==
    IF s = <<>> \/ Head(s) = "," THEN <<>>
    ELSE <<Head(s)>> \o BeforeComma(Tail(s))

\* words.join(" ")
RECURSIVE JoinWords(_)
JoinWords(words) ==
    IF words = <<>> THEN <<>>
    ELSE IF Len(words) = 1 THEN words[1]
    ELSE words[1] \o <<" ">> \o JoinWords(Tail(words))

extractCorePort(val) ==
    IF ~Truthy(val) THEN <<>>
    ELSE LET lower     == Trim(ToLowerCase(val))
             noCountry == StripAtEnd(lower, Countries, TRUE)
             noSuffix  == StripAtEnd(noCountry, PortSuffixes, FALSE)
         IN  JoinWords(SplitWhitespace(Trim(BeforeComma(noSuffix))))

portsMatch(port1, port2) ==
    LET core1  == extractCorePort(port1)
        core2  == extractCorePort(port2)
        words1 == JoinWords(Take(SplitWhitespace(core1), 2))
        words2 == JoinWords(Take(SplitWhitespace(core2), 2))
    IN  \/ core1 = <<>> \/ core2 = <<>>
        \/ core1 = core2
        \/ Includes(core1, core2) \/ Includes(core2, core1)
        \/ words1 = words2 /\ Len(words1) >= 4

\* Company names.
LegalSuffixes ==
    {<<"l", "l", "c">>, <<"l", "t", "d">>, <<"l", "i", "m", "i", "t", "e", "d">>, <<"i", "n", "c">>, <<"i", "n", "c", "o", "r", "p", "o", "r", "a", "t", "e", "d">>, <<"c", "o", "r", "p">>, <<"c", "o", "r", "p", "o", "r", "a", "t", "i", "o", "n">>,
     <<"c", "o">>, <<"c", "o", "m", "p", "a", "n", "y">>, <<"p", "l", "c">>, <<"g", "m", "b", "h">>, <<"a", "g">>, <<"s", "a">>, <<"s", "r", "l">>, <<"b", "v">>, <<"n", "v">>,
     <<"p", "t", "y">>, <<"p", "v", "t">>, <<"p", "r", "i", "v", "a", "t", "e">>}

\* s.replace(/[.,;:]+$/, "")
RECURSIVE StripTrailingPunctuation(_)
StripTrailingPunctuation(s) ==
    IF s # <<>> /\ s[Len(s)] \in {".", ",", ";", ":"}
    THEN StripTrailingPunctuation(SubSeq(s, 1, Len(s) - 1))
    ELSE s

\* s.replace(/[^a-z0-9]/g, "")
AlphaNumeric(s) ==
    SelectSeq(s, LAMBDA c : IsDigit(c) \/ \E i \in 1..Len(LowerChars) : LowerChars[i] = c)

extractCoreName(val) ==
    IF ~Truthy(val) THEN <<>>
    ELSE LET lower    == Trim(ToLowerCase(val))
             noSuffix == StripAtEnd(lower, LegalSuffixes, FALSE)
         IN  Trim(StripTrailingPunctuation(noSuffix))

\* Mutant of namesMatch: containment is tried one way only.
namesMatchContained(name1, name2) ==
    LET core1 == extractCoreName(name1)
        core2 == extractCoreName(name2)
    IN  \/ core1 = <<>> \/ core2 = <<>>
        \/ core1 = core2
        \/ Includes(core1, core2)
        \/ AlphaNumeric(core1) = AlphaNumeric(core2)

namesMatch(name1, name2) ==
    LET core1 == extractCoreName(name1)
        core2 == extractCoreName(name2)
    IN  \/ core1 = <<>> \/ core2 = <<>>
        \/ core1 = core2
        \/ Includes(core1, core2) \/ Includes(core2, core1)
        \/ AlphaNumeric(core1) = AlphaNumeric(core2)

portRelevantDocTypes ==
    {"letter_of_credit", "bill_of_lading", "commercial_invoice",
     "certificate_of_origin", "insurance_certificate", "inspection_certificate",
     "loading_certificate", "vessel_nomination"}

\* One port field: the documents that specify it, in input order, are
\* compared against the first of them.
PortFieldIssues(documentResults, field, description) ==
    LET ports ==
            SelectSeq([i \in 1..Len(documentResults) |-> i],
                      LAMBDA i :
                        /\ documentResults[i].type \in portRelevantDocTypes
                        /\ isSpecified(documentResults[i].extractedData[field]))
        Value(k)   == documentResults[ports[k]].extractedData[field]
        mismatches == {k \in 1..Len(ports) : ~portsMatch(Value(1), Value(k))}
    IN  IF Len(ports) >= 2 /\ mismatches # {}
        THEN <<Issue(field,
                     [k \in 1..Len(ports) |-> DocName(documentResults[ports[k]].type)],
                     [k \in 1..Len(ports) |-> DocName(documentResults[ports[k]].type)],
                     "major", <<description>>)>>
        ELSE <<>>

PortIssues(documentResults) ==
    PortFieldIssues(documentResults, "portOfLoading",
                    "Port of loading mismatch across documents")
    \o PortFieldIssues(documentResults, "portOfDischarge",
                       "Port of discharge mismatch across documents")

\* Mutant of LcDateIssues: a shipment on the LC date is reported as well.
LcDateIssuesOnOrAfter(documentResults, paymentMode, now) ==
    LET lc == DataOf(FindDoc(documentResults, "letter_of_credit"))
        bl == DataOf(FindDoc(documentResults, "bill_of_lading"))
        shipDate   == DateValue(bl.shipmentDate)
        expDate    == DateValue(lc.expiryDate)
        latestDate == DateValue(lc.latestShipmentDate)
    IN  IF paymentMode # "lc" THEN <<>>
        ELSE
          (IF /\ Truthy(bl.shipmentDate) /\ Truthy(lc.expiryDate)
              /\ shipDate # NoNumber /\ expDate # NoNumber /\ shipDate >= expDate
           THEN <<Issue("dates", <<"LC", "B/L">>, <<"LC Expiry", "Shipment">>,
                        "critical", <<"Shipment date is after LC expiry">>)>>
           ELSE <<>>)
          \o
          (IF Truthy(lc.expiryDate) /\ expDate # NoNumber /\ expDate < now
           THEN <<Issue("lcExpiry", <<"LC">>, <<"LC Expiry", "Today">>,
                        "critical", <<"LC expired">>)>>
           ELSE <<>>)
          \o
          (IF /\ Truthy(bl.shipmentDate) /\ Truthy(lc.latestShipmentDate)
              /\ shipDate # NoNumber /\ latestDate # NoNumber
              /\ shipDate >= latestDate
           THEN <<Issue("lateShipment", <<"LC", "B/L">>,
                        <<"LC Latest Shipment", "B/L Shipped">>, "critical",
                        <<"Shipment date is after LC latest shipment date">>)>>
           ELSE <<>>)

\* LC-specific date checks (only if LC document present).
LcDateIssues(documentResults, paymentMode, now) ==
    LET lc == DataOf(FindDoc(documentResults, "letter_of_credit"))
        bl == DataOf(FindDoc(documentResults, "bill_of_lading"))
        shipDate   == DateValue(bl.shipmentDate)
        expDate    == DateValue(lc.expiryDate)
        latestDate == DateValue(lc.latestShipmentDate)
    IN  IF paymentMode # "lc" THEN <<>>
        ELSE
          (IF /\ Truthy(bl.shipmentDate) /\ Truthy(lc.expiryDate)
              /\ shipDate # NoNumber /\ expDate # NoNumber /\ shipDate > expDate
           THEN <<Issue("dates", <<"LC", "B/L">>, <<"LC Expiry", "Shipment">>,
                        "critical", <<"Shipment date is after LC expiry">>)>>
           ELSE <<>>)
          \o
          (IF Truthy(lc.expiryDate) /\ expDate # NoNumber /\ expDate < now
           THEN <<Issue("lcExpiry", <<"LC">>, <<"LC Expiry", "Today">>,
                        "critical", <<"LC expired">>)>>
           ELSE <<>>)
          \o
          (IF /\ Truthy(bl.shipmentDate) /\ Truthy(lc.latestShipmentDate)
              /\ shipDate # NoNumber /\ latestDate # NoNumber
              /\ shipDate > latestDate
           THEN <<Issue("lateShipment", <<"LC", "B/L">>,
                        <<"LC Latest Shipment", "B/L Shipped">>, "critical",
                        <<"Shipment date is after LC latest shipment date">>)>>
           ELSE <<>>)

\* Cross-reference quantities across documents.
\* extractQty: val.replace(/,/g, "").match(/([\d.]+)/), then parseFloat.
extractQty(val) ==
    IF ~Truthy(val) THEN NoNumber
    ELSE LET match == FirstNumericRun(RemoveCommas(val))
         IN  IF match = Null THEN NoNumber ELSE ParseFloat(match)

\* tolStr.match(/([\d.]+)\s*(%|PCT|PERCENT)/i)[1]: the first run of digits
\* and dots that is followed, after optional blanks, by a percent unit.
RECURSIVE TolMatch(_)
TolMatch(s) ==
    IF s = <<>> THEN Null
    ELSE IF IsDigit(Head(s)) \/ Head(s) = "."
    THEN LET run  == TakeWhileNumeric(s)
             rest == ToLowerCase(TrimStart(SubSeq(s, Len(run) + 1, Len(s))))
         IN  IF \/ StartsWith(rest, <<"%">>)
                \/ StartsWith(rest, <<"p", "c", "t">>)
                \/ StartsWith(rest, <<"p", "e", "r", "c", "e", "n", "t">>)
             THEN run
             ELSE TolMatch(SubSeq(s, Len(run) + 1, Len(s)))
    ELSE TolMatch(Tail(s))

Abs(n) == IF n < 0 THEN -n ELSE n

\* The indices, in input order, of the documents whose quantity is
\* specified and parses to a positive number.
Quantities(documentResults) ==
    SelectSeq([i \in 1..Len(documentResults) |-> i],
              LAMBDA i :
                /\ isSpecified(documentResults[i].extractedData.quantity)
                /\ extractQty(documentResults[i].extractedData.quantity) > 0)

\* The tolerance, a percentage in hundredths (NoNumber when parseFloat gives
\* NaN), and where it comes from.
QuantityTolerance(documentResults) ==
    LET tolStr   == DataOf(FindDoc(documentResults, "letter_of_credit")).quantityTolerance
        tolMatch == IF Truthy(tolStr) THEN TolMatch(tolStr) ELSE Null
    IN  IF tolMatch # Null
        THEN [tolerance |-> ParseFloat(tolMatch), toleranceSource |-> "LC specified"]
        ELSE [tolerance |-> 500, toleranceSource |-> "UCP 600 default 5%"]

\* A number of hundredths that a double holds exactly (a multiple of 0.25).
ExactDouble(n) == n % 25 = 0

\* Math.abs(q - baseQty) / baseQty > tolerance in double arithmetic, for
\* quantities and percentages printed with two decimals.  The doubles agree
\* with the exact quotient except when it equals the tolerance: then they
\* compare equal if q, baseQty and the percentage are exact doubles, and
\* otherwise the quotient is rounded to one side or the other of the
\* tolerance.  A NaN tolerance compares false.
ExceedsTolerance(q, baseQty, tolerance, rounding) ==
    /\ tolerance # NoNumber
    /\ \/ Abs(q - baseQty) * 10000 > tolerance * baseQty
       \/ /\ Abs(q - baseQty) * 10000 = tolerance * baseQty
          /\ ~(ExactDouble(q) /\ ExactDouble(baseQty) /\ ExactDouble(tolerance))
          /\ rounding = "up"

\* Mutant of QuantityIssues: every quantity is compared against the smallest.
QuantityIssuesAgainstSmallest(documentResults, rounding) ==
    LET quantities == Quantities(documentResults)
        tol        == QuantityTolerance(documentResults)
        Numeric(k) == extractQty(documentResults[quantities[k]].extractedData.quantity)
        smallest   == CHOOSE k \in 1..Len(quantities) :
                          \A j \in 1..Len(quantities) : Numeric(k) <= Numeric(j)
        mismatches ==
            {k \in 1..Len(quantities) :
                ExceedsTolerance(Numeric(k), Numeric(smallest), tol.tolerance, rounding)}
    IN  IF Len(quantities) >= 2 /\ mismatches # {}
        THEN <<Issue("quantity",
                     [k \in 1..Len(quantities) |->
                         DocName(documentResults[quantities[k]].type)],
                     [k \in 1..Len(quantities) |->
                         DocName(documentResults[quantities[k]].type)],
                     "major",
                     <<"Quantity mismatch across documents", tol.toleranceSource>>)>>
        ELSE <<>>

QuantityIssues(documentResults, rounding) ==
    LET quantities == Quantities(documentResults)
        tol        == QuantityTolerance(documentResults)
        Numeric(k) == extractQty(documentResults[quantities[k]].extractedData.quantity)
        mismatches ==
            {k \in 1..Len(quantities) :
                ExceedsTolerance(Numeric(k), Numeric(1), tol.tolerance, rounding)}
    IN  IF Len(quantities) >= 2 /\ mismatches # {}
        THEN <<Issue("quantity",
                     [k \in 1..Len(quantities) |->
                         DocName(documentResults[quantities[k]].type)],
                     [k \in 1..Len(quantities) |->
                         DocName(documentResults[quantities[k]].type)],
                     "major",
                     <<"Quantity mismatch across documents", tol.toleranceSource>>)>>
        ELSE <<>>

\* The ways the quotients of this package may round: both where some
\* quotient of inexact doubles sits on the tolerance, one elsewhere.
Roundings(documentResults) ==
    LET quantities == Quantities(documentResults)
        tol        == QuantityTolerance(documentResults)
        Numeric(k) == extractQty(documentResults[quantities[k]].extractedData.quantity)
    IN  IF \E k \in 1..Len(quantities) :
              ExceedsTolerance(Numeric(k), Numeric(1), tol.tolerance, "up")
              # ExceedsTolerance(Numeric(k), Numeric(1), tol.tolerance, "down")
        THEN {"down", "up"} ELSE {"down"}

\* Goods description.  goodsDescriptions holds, in input order, the index of
\* every goods-bearing document whose description is specified.
goodsDescRelevantDocTypes ==
    {"letter_of_credit", "commercial_invoice", "bill_of_lading", "packing_list"}

GoodsDescriptions(documentResults) ==
    SelectSeq([i \in 1..Len(documentResults) |-> i],
              LAMBDA i : /\ documentResults[i].type \in goodsDescRelevantDocTypes
                         /\ isSpecified(documentResults[i].extractedData.goodsDescription))

\* The indices of the documents compared against the LC: none unless two
\* descriptions are specified and one of them is the LC's.
DocsToCompare(documentResults) ==
    LET gd == GoodsDescriptions(documentResults)
    IN  IF /\ Len(gd) >= 2
           /\ \E k \in 1..Len(gd) : documentResults[gd[k]].type = "letter_of_credit"
        THEN SelectSeq(gd, LAMBDA i : documentResults[i].type # "letter_of_credit")
        ELSE <<>>

\* Mutant of compareGoodsDescriptions: a failed call counts as a match.
compareGoodsDescriptionsFailOpen(agent, call) ==
    IF ~agent
    THEN [matches |-> FALSE,
          reason |-> "Unable to verify goods description - Haiku unavailable"]
    ELSE [matches |-> (call # "mismatch"), reason |-> "comparator reason"]

\* compareGoodsDescriptions: agent says whether the comparator agent exists,
\* call is what extractor.generate did for this pair: "match" / "mismatch"
\* (a JSON reply with matches true / false), "error" (the call rejects) or
\* "unparseable" (a reply JSON.parse rejects).
compareGoodsDescriptions(agent, call) ==
    IF ~agent
    THEN [matches |-> FALSE,
          reason |-> "Unable to verify goods description - Haiku unavailable"]
    ELSE IF call \in {"error", "unparseable"}
    THEN [matches |-> FALSE,
          reason |-> "Unable to verify goods description - manual review recommended"]
    ELSE [matches |-> (call = "match"), reason |-> "comparator reason"]

\* Mutant of PromiseAll: the results in the order the calls settled.
PromiseAllAsSettled(inputs, order) == order

\* await Promise.all(inputs.map(...)): the results come in the order of the
\* inputs, whatever the order in which the calls settled.
PromiseAll(inputs, order) == inputs

\* order is the order in which the comparator calls settled.
GoodsDescriptionIssues(documentResults, cmp, order) ==
    LET gd   == GoodsDescriptions(documentResults)
        todo == PromiseAll(DocsToCompare(documentResults), order)
        comparisons ==
            [k \in 1..Len(todo) |->
                LET type   == documentResults[todo[k]].type
                    result == compareGoodsDescriptions(cmp.agent, cmp.calls[todo[k]])
                IN  [doc |-> DocName(type),
                     severity |-> IF type \in {"commercial_invoice", "packing_list"}
                                  THEN "critical" ELSE "major",
                     matches |-> result.matches,
                     reason |-> result.reason]]
        issues == SelectSeq(comparisons, LAMBDA c : ~c.matches)
    IN  IF Len(issues) > 0
        THEN <<Issue("goodsDescription",
                     [k \in 1..Len(gd) |-> DocName(documentResults[gd[k]].type)],
                     [k \in 1..Len(gd) |-> DocName(documentResults[gd[k]].type)],
                     IF \E k \in 1..Len(issues) : issues[k].severity = "critical"
                     THEN "critical" ELSE "major",
                     [k \in 1..Len(issues) |-> issues[k].reason])>>
        ELSE <<>>

\* Inspection company (if the LC requires one): one issue per certificate
\* issued by another company.
InspectionCompanyIssues(documentResults, paymentMode) ==
    LET lc == DataOf(FindDoc(documentResults, "letter_of_credit"))
        requiredCompany == ToLowerCase(lc.requiredInspectionCompany)
        inspectionDocs ==
            SelectSeq(documentResults,
                      LAMBDA d : /\ d.type \in {"inspection_certificate",
                                                "certificate_of_quality",
                                                "certificate_of_quantity"}
                                 /\ isSpecified(d.extractedData.inspectionCompany))
        wrong ==
            SelectSeq(inspectionDocs,
                      LAMBDA d :
                        LET actualCompany == ToLowerCase(d.extractedData.inspectionCompany)
                        IN  /\ ~Includes(actualCompany, requiredCompany)
                            /\ ~Includes(requiredCompany, actualCompany))
    IN  IF paymentMode = "lc" /\ Truthy(lc.requiredInspectionCompany)
        THEN [k \in 1..Len(wrong) |->
                Issue("inspectionCompany", <<"LC", DocName(wrong[k].type)>>,
                      <<"LC requires", wrong[k].type>>, "critical",
                      <<"LC requires inspection by another company">>)]
        ELSE <<>>

\* Consignee / order party (B/L must be to order of the issuing bank).
commonWords ==
    {<<"b", "a", "n", "k">>, <<"o", "f">>, <<"t", "h", "e">>, <<"n", ".", "a", ".">>, <<"n", "a">>, <<"l", "t", "d">>, <<"l", "i", "m", "i", "t", "e", "d">>, <<"i", "n", "c">>,
     <<"c", "o", "r", "p">>, <<"p", "l", "c">>}

ConsigneeIssues(documentResults, paymentMode) ==
    LET lc == DataOf(FindDoc(documentResults, "letter_of_credit"))
        bl == DataOf(FindDoc(documentResults, "bill_of_lading"))
        consignee   == ToLowerCase(bl.consignee)
        issuingBank == ToLowerCase(lc.issuingBank)
        isToOrder   == Includes(consignee, <<"t", "o", " ", "o", "r", "d", "e", "r">>)
        bankDistinctiveWords ==
            SelectSeq(SplitWhitespace(issuingBank),
                      LAMBDA word : Len(word) > 2 /\ word \notin commonWords)
        mentionsIssuingBank ==
            \/ Includes(consignee, issuingBank)
            \/ \E k \in 1..Len(bankDistinctiveWords) :
                   Includes(consignee, bankDistinctiveWords[k])
    IN  IF paymentMode = "lc" /\ Truthy(bl.consignee) /\ Truthy(lc.issuingBank)
        THEN IF ~isToOrder
             THEN <<Issue("consignee", <<"B/L", "LC">>,
                          <<"B/L Consignee", "LC Issuing Bank">>, "critical",
                          <<"B/L not made to order">>)>>
             ELSE IF Includes(consignee, <<"t", "o", " ", "o", "r", "d", "e", "r", " ", "o", "f">>) /\ ~mentionsIssuingBank
             THEN <<Issue("consignee", <<"B/L", "LC">>,
                          <<"B/L Consignee", "LC Issuing Bank">>, "major",
                          <<"B/L made to order of wrong party">>)>>
             ELSE <<>>
        ELSE <<>>

\* Vessel name (if the LC specifies one).
VesselNameIssues(documentResults, paymentMode) ==
    LET lc == DataOf(FindDoc(documentResults, "letter_of_credit"))
        bl == DataOf(FindDoc(documentResults, "bill_of_lading"))
        lcVesselNorm == normalizeVessel(Trim(ToLowerCase(lc.vesselName)))
        blVesselNorm == normalizeVessel(Trim(ToLowerCase(bl.vesselName)))
    IN  IF /\ paymentMode = "lc"
           /\ Truthy(lc.vesselName) /\ Truthy(bl.vesselName)
           /\ lcVesselNorm # blVesselNorm
           /\ ~Includes(blVesselNorm, lcVesselNorm)
           /\ ~Includes(lcVesselNorm, blVesselNorm)
        THEN <<Issue("vesselName", <<"LC", "B/L">>, <<"LC Vessel", "B/L Vessel">>,
                     "major", <<"Vessel name mismatch">>)>>
        ELSE <<>>

\* Mutant of InsuranceValueIssues: the rule runs in either payment mode.
InsuranceValueIssuesAnyMode(documentResults, paymentMode) ==
    LET lc      == FindDoc(documentResults, "letter_of_credit")
        invoice == FindDoc(documentResults, "commercial_invoice")
        insuranceCert == FindDoc(documentResults, "insurance_certificate")
        insuredAmt   == extractAmount(DataOf(insuranceCert).insuredValue)
        invoiceAmt   == extractAmount(DataOf(invoice).amount)
        lcAmt        == extractAmount(DataOf(lc).amount)
        referenceAmt == IF TruthyNum(invoiceAmt) THEN invoiceAmt ELSE lcAmt
    IN  IF /\ Truthy(DataOf(insuranceCert).insuredValue)
           /\ TruthyNum(insuredAmt) /\ TruthyNum(referenceAmt)
           /\ insuredAmt * 100 < referenceAmt * 110
        THEN <<Issue("insuranceValue",
                     <<"Insurance Certificate",
                       IF invoice # None THEN "Invoice" ELSE "LC">>,
                     <<"Insured", "Reference">>, "major",
                     <<"Insurance coverage insufficient">>)>>
        ELSE <<>>

\* Insurance value (must be >= 110% of the invoice amount, else of the LC
\* amount).  insuredAmt < referenceAmt * 1.10, on exact hundredths.
InsuranceValueIssues(documentResults, paymentMode) ==
    LET lc      == FindDoc(documentResults, "letter_of_credit")
        invoice == FindDoc(documentResults, "commercial_invoice")
        insuranceCert == FindDoc(documentResults, "insurance_certificate")
        insuredAmt   == extractAmount(DataOf(insuranceCert).insuredValue)
        invoiceAmt   == extractAmount(DataOf(invoice).amount)
        lcAmt        == extractAmount(DataOf(lc).amount)
        referenceAmt == IF TruthyNum(invoiceAmt) THEN invoiceAmt ELSE lcAmt
    IN  IF /\ paymentMode = "lc"
           /\ Truthy(DataOf(insuranceCert).insuredValue)
           /\ TruthyNum(insuredAmt) /\ TruthyNum(referenceAmt)
           /\ insuredAmt * 100 < referenceAmt * 110
        THEN <<Issue("insuranceValue",
                     <<"Insurance Certificate",
                       IF invoice # None THEN "Invoice" ELSE "LC">>,
                     <<"Insured", "Reference">>, "major",
                     <<"Insurance coverage insufficient">>)>>
        ELSE <<>>

\* Freight notation (prepaid against collect).
FreightNotationIssues(documentResults, paymentMode) ==
    LET lc == DataOf(FindDoc(documentResults, "letter_of_credit"))
        bl == DataOf(FindDoc(documentResults, "bill_of_lading"))
        blFreight == ToLowerCase(bl.freightNotation)
        lcFreight == ToLowerCase(lc.freightNotation)
        blIsPrepaid == Includes(blFreight, <<"p", "r", "e", "p", "a", "i", "d">>)
        blIsCollect == Includes(blFreight, <<"c", "o", "l", "l", "e", "c", "t">>)
        lcIsPrepaid == Includes(lcFreight, <<"p", "r", "e", "p", "a", "i", "d">>)
        lcIsCollect == Includes(lcFreight, <<"c", "o", "l", "l", "e", "c", "t">>)
    IN  IF /\ paymentMode = "lc"
           /\ Truthy(bl.freightNotation) /\ Truthy(lc.freightNotation)
           /\ ((blIsPrepaid /\ lcIsCollect) \/ (blIsCollect /\ lcIsPrepaid))
        THEN <<Issue("freightNotation", <<"B/L", "LC">>, <<"B/L", "LC">>,
                     "critical", <<"Freight notation mismatch">>)>>
        ELSE <<>>

\* B/L carrier signature and carrier name (inside the LC-only block).
CarrierIssues(documentResults, paymentMode) ==
    LET bl == FindDoc(documentResults, "bill_of_lading")
    IN  IF paymentMode = "lc" /\ bl # None
        THEN (IF DataOf(bl).carrierSignature = "false"
              THEN <<Issue("carrierSignature", <<"B/L">>,
                           <<"No carrier/master signature detected">>, "critical",
                           <<"B/L must be signed by carrier, master, or named agent">>)>>
              ELSE <<>>)
             \o
             (IF ~Truthy(DataOf(bl).carrierName)
              THEN <<Issue("carrierName", <<"B/L">>, <<"Carrier name not found">>,
                           "major",
                           <<"B/L should indicate the name of the carrier">>)>>
              ELSE <<>>)
        ELSE <<>>

\* Mutant of DocumentDatingIssues: every inspection certificate is checked,
\* not the first one only.
DocumentDatingIssuesEveryCertificate(documentResults, paymentMode) ==
    LET bl     == DataOf(FindDoc(documentResults, "bill_of_lading"))
        blDate == DateValue(bl.shipmentDate)
        late   == SelectSeq(documentResults,
                            LAMBDA d : /\ d.type = "inspection_certificate"
                                       /\ Truthy(d.extractedData.inspectionDate)
                                       /\ DateValue(d.extractedData.inspectionDate) # NoNumber
                                       /\ DateValue(d.extractedData.inspectionDate) - blDate > 2)
    IN  IF paymentMode = "lc" /\ Truthy(bl.shipmentDate) /\ blDate # NoNumber
        THEN [k \in 1..Len(late) |->
                Issue("documentDating", <<"Inspection Certificate", "B/L">>,
                      <<"Inspection", "B/L">>, "major",
                      <<"Inspection certificate dated AFTER B/L">>)]
        ELSE <<>>

\* Document dating consistency: certificates should not be dated after the
\* B/L.  daysDiff > 1 day is more than two half days.
DocumentDatingIssues(documentResults, paymentMode) ==
    LET bl     == DataOf(FindDoc(documentResults, "bill_of_lading"))
        blDate == DateValue(bl.shipmentDate)
        Dated(type, field, name, label) ==
            LET dateStr == DataOf(FindDoc(documentResults, type))[field]
                date    == DateValue(dateStr)
            IN  IF /\ Truthy(dateStr) /\ date # NoNumber
                   /\ date > blDate /\ date - blDate > 2
                THEN <<Issue("documentDating", <<name, "B/L">>, <<label, "B/L">>,
                             "major", <<name, "dated AFTER B/L">>)>>
                ELSE <<>>
    IN  IF paymentMode = "lc" /\ Truthy(bl.shipmentDate) /\ blDate # NoNumber
        THEN Dated("inspection_certificate", "inspectionDate",
                   "Inspection Certificate", "Inspection")
             \o Dated("certificate_of_origin", "issueDate",
                      "Certificate of Origin", "CO")
             \o Dated("certificate_of_quality", "issueDate",
                      "Certificate of Quality", "Quality Cert")
        ELSE <<>>

\* Non-LC mode: customs / export readiness.
HasType(documentResults, type) ==
    \E i \in 1..Len(documentResults) : documentResults[i].type = type

\* Mutant of CustomsReadinessIssues: a missing packing list goes unreported.
CustomsReadinessIssuesNoPackingList(documentResults, paymentMode) ==
    LET Missing(type, value, severity, description) ==
            IF ~HasType(documentResults, type)
            THEN <<Issue("customsReadiness", <<"Package">>, <<value>>,
                         severity, <<description>>)>>
            ELSE <<>>
    IN  IF paymentMode = "no_lc"
        THEN Missing("commercial_invoice", "Missing Commercial Invoice", "critical",
                     "Commercial Invoice required for customs clearance")
             \o Missing("bill_of_lading", "Missing Bill of Lading", "critical",
                        "Bill of Lading required for cargo release")
             \o Missing("certificate_of_origin", "Missing Certificate of Origin",
                        "major",
                        "Certificate of Origin typically required for customs clearance")
        ELSE <<>>

CustomsReadinessIssues(documentResults, paymentMode) ==
    LET Missing(type, value, severity, description) ==
            IF ~HasType(documentResults, type)
            THEN <<Issue("customsReadiness", <<"Package">>, <<value>>,
                         severity, <<description>>)>>
            ELSE <<>>
    IN  IF paymentMode = "no_lc"
        THEN Missing("commercial_invoice", "Missing Commercial Invoice", "critical",
                     "Commercial Invoice required for customs clearance")
             \o Missing("bill_of_lading", "Missing Bill of Lading", "critical",
                        "Bill of Lading required for cargo release")
             \o Missing("certificate_of_origin", "Missing Certificate of Origin",
                        "major",
                        "Certificate of Origin typically required for customs clearance")
             \o Missing("packing_list", "Missing Packing List", "major",
                        "Packing List helps customs verify cargo contents")
        ELSE <<>>

\* Mutant of ShippedOnBoardIssues: a B/L without the flag is reported too.
ShippedOnBoardIssuesUnlessTrue(documentResults) ==
    LET bl == FindDoc(documentResults, "bill_of_lading")
    IN  IF bl # None /\ DataOf(bl).shippedOnBoard # "true"
        THEN <<Issue("shippedOnBoard", <<"B/L">>,
                     <<"B/L: RECEIVED FOR SHIPMENT (not shipped on board)">>,
                     "critical", <<"B/L is Received for Shipment">>)>>
        ELSE <<>>

\* Shipped-on-board notation.
ShippedOnBoardIssues(documentResults) ==
    LET bl == FindDoc(documentResults, "bill_of_lading")
    IN  IF bl # None /\ DataOf(bl).shippedOnBoard = "false"
        THEN <<Issue("shippedOnBoard", <<"B/L">>,
                     <<"B/L: RECEIVED FOR SHIPMENT (not shipped on board)">>,
                     "critical", <<"B/L is Received for Shipment">>)>>
        ELSE <<>>

\* Packing list weight verification.  Weights are in hundredths of a kg.
\* items.reduce((sum, item) => sum + (item.netWeight || 0), 0)
RECURSIVE SumNetWeights(_)
SumNetWeights(items) ==
    IF items = <<>> THEN 0
    ELSE (IF TruthyNum(Head(items)) THEN Head(items) ELSE 0)
         + SumNetWeights(Tail(items))

\* diff > 1.0 in doubles: exact unless the exact difference is 1 kg and a
\* weight is no exact double, where the computed diff may fall on either
\* side of 1.0.
ExceedsOneKg(items, printedTotal, rounding) ==
    LET diff == Abs(SumNetWeights(items) - printedTotal)
    IN  \/ diff > 100
        \/ /\ diff = 100
           /\ ~(ExactDouble(printedTotal)
                /\ \A k \in 1..Len(items) : ExactDouble(items[k]))
           /\ rounding = "up"

PackingListMathIssues(documentResults, rounding) ==
    LET packingList == DataOf(FindDoc(documentResults, "packing_list"))
        items        == packingList.packingListItems
        printedTotal == packingList.packingListTotalNet
    IN  IF /\ items # None /\ TruthyNum(printedTotal)
           /\ Len(items[1]) > 0
           /\ ExceedsOneKg(items[1], printedTotal, rounding)
        THEN <<Issue("packingListMath", <<"Packing List">>,
                     <<"Rows sum to", "Printed total", "Difference">>,
                     "critical", <<"MATH ERROR: Packing list rows sum">>)>>
        ELSE <<>>

\* The outcomes of the rounding in the packing-list sum.
SumRoundings(documentResults) ==
    IF PackingListMathIssues(documentResults, "up")
       # PackingListMathIssues(documentResults, "down")
    THEN {"down", "up"} ELSE {"down"}

\* The rules crossReferenceStep.execute runs before it calls the comparator.
IssuesBeforeComparisons(documentResults, paymentMode, now, rounding) ==
    AmountIssues(documentResults)
    \o PortIssues(documentResults)
    \o LcDateIssues(documentResults, paymentMode, now)
    \o QuantityIssues(documentResults, rounding)

\* The rules it runs once the comparator calls have all settled.
IssuesAfterComparisons(documentResults, paymentMode, sumRounding) ==
    InspectionCompanyIssues(documentResults, paymentMode)
    \o ConsigneeIssues(documentResults, paymentMode)
    \o VesselNameIssues(documentResults, paymentMode)
    \o InsuranceValueIssues(documentResults, paymentMode)
    \o FreightNotationIssues(documentResults, paymentMode)
    \o CarrierIssues(documentResults, paymentMode)
    \o DocumentDatingIssues(documentResults, paymentMode)
    \o CustomsReadinessIssues(documentResults, paymentMode)
    \o ShippedOnBoardIssues(documentResults)
    \o PackingListMathIssues(documentResults, sumRounding)

\* crossReferenceStep.execute: now is the clock, cmp the comparator, order the
\* order in which its calls settled, rounding the way inexact quotients
\* round, sumRounding the way inexact sums round.
crossReferenceExecute(documentResults, now, cmp, order, rounding, sumRounding) ==
    LET paymentMode == PaymentModeOf(documentResults)
    IN  [crossRefIssues |->
            IssuesBeforeComparisons(documentResults, paymentMode, now, rounding)
            \o GoodsDescriptionIssues(documentResults, cmp, order)
            \o IssuesAfterComparisons(documentResults, paymentMode, sumRounding),
         documentResults |-> documentResults,
         paymentMode |-> paymentMode]

-----------------------------------------------------------------------------
(* Step 4: final-verdict.                                                   *)

\* documentResults.flatMap((d) => d.issues.filter(severity).map(description))
RECURSIVE DocIssueDescriptions(_, _)
DocIssueDescriptions(documentResults, severity) ==
    IF documentResults = <<>> THEN <<>>
    ELSE LET sel == SelectSeq(Head(documentResults).issues,
                              LAMBDA i : i.severity = severity)
         IN  [k \in 1..Len(sel) |-> sel[k].description]
             \o DocIssueDescriptions(Tail(documentResults), severity)

CrossRefDescriptions(crossRefIssues, severity) ==
    LET sel == SelectSeq(crossRefIssues, LAMBDA i : i.severity = severity)
    IN  [k \in 1..Len(sel) |-> sel[k].description]

HasDocIssue(documentResults, severity) ==
    \E k \in 1..Len(documentResults) :
        \E j \in 1..Len(documentResults[k].issues) :
            documentResults[k].issues[j].severity = severity

HasCrossRef(crossRefIssues, severity) ==
    \E k \in 1..Len(crossRefIssues) : crossRefIssues[k].severity = severity

HasVerdict(documentResults, v) ==
    \E k \in 1..Len(documentResults) : documentResults[k].verdict = v

\* Mutants of OverallVerdict: one forgets that any cross-reference issue
\* makes the package wait, one lets any document-level issue do so.
OverallVerdictIgnoringMinorCrossRef(documentResults, crossRefIssues) ==
    IF \/ HasDocIssue(documentResults, "critical")
       \/ HasCrossRef(crossRefIssues, "critical")
       \/ HasVerdict(documentResults, "NO_GO")
    THEN "NO_GO"
    ELSE IF \/ HasDocIssue(documentResults, "major")
            \/ HasCrossRef(crossRefIssues, "major")
            \/ HasVerdict(documentResults, "WAIT")
    THEN "WAIT"
    ELSE "GO"

OverallVerdictAnyDocIssueWaits(documentResults, crossRefIssues) ==
    IF \/ HasDocIssue(documentResults, "critical")
       \/ HasCrossRef(crossRefIssues, "critical")
       \/ HasVerdict(documentResults, "NO_GO")
    THEN "NO_GO"
    ELSE IF \/ \E k \in 1..Len(documentResults) : documentResults[k].issues # <<>>
            \/ HasVerdict(documentResults, "WAIT")
            \/ Len(crossRefIssues) > 0
    THEN "WAIT"
    ELSE "GO"

\* The overall verdict of finalVerdictStep.execute.
OverallVerdict(documentResults, crossRefIssues) ==
    IF \/ HasDocIssue(documentResults, "critical")
       \/ HasCrossRef(crossRefIssues, "critical")
       \/ HasVerdict(documentResults, "NO_GO")
    THEN "NO_GO"
    ELSE IF \/ HasDocIssue(documentResults, "major")
            \/ HasCrossRef(crossRefIssues, "major")
            \/ HasVerdict(documentResults, "WAIT")
            \/ Len(crossRefIssues) > 0
    THEN "WAIT"
    ELSE "GO"

\* The recommendation: the sentence chosen and the descriptions joined in it.
Recommendation(documentResults, crossRefIssues) ==
    LET v == OverallVerdict(documentResults, crossRefIssues)
        criticalIssues == DocIssueDescriptions(documentResults, "critical")
                          \o CrossRefDescriptions(crossRefIssues, "critical")
        majorIssues == DocIssueDescriptions(documentResults, "major")
                       \o CrossRefDescriptions(crossRefIssues, "major")
    IN  IF v = "NO_GO"
        THEN [sentence |-> "STOP - Critical issues found", issues |-> criticalIssues]
        ELSE IF v = "WAIT"
        THEN IF Len(majorIssues) > 0
             THEN [sentence |-> "REVIEW NEEDED - Issues found", issues |-> majorIssues]
             ELSE [sentence |-> "REVIEW NEEDED - Minor cross-reference issues detected",
                   issues |-> <<>>]
        ELSE [sentence |-> "Package looks complete and consistent", issues |-> <<>>]

\* Mutant of finalVerdictExecute: the three dates of every document are set
\* again from a scan of its raw text.
finalVerdictExecuteRescanning(inputData) ==
    [overallVerdict |->
        OverallVerdict(inputData.documentResults, inputData.crossRefIssues),
     documentResults |->
        [i \in 1..Len(inputData.documentResults) |->
            LET d   == inputData.documentResults[i]
                det == extractDatesFromText(d.rawText)
            IN  [d EXCEPT !.extractedData =
                    [@ EXCEPT !.latestShipmentDate = det.latestShipmentDate,
                              !.expiryDate = det.expiryDate,
                              !.shipmentDate = det.shipmentDate]]],
     crossReferenceIssues |-> inputData.crossRefIssues,
     recommendation |->
        Recommendation(inputData.documentResults, inputData.crossRefIssues),
     paymentMode |-> inputData.paymentMode]

finalVerdictExecute(inputData) ==
    [overallVerdict |->
        OverallVerdict(inputData.documentResults, inputData.crossRefIssues),
     documentResults |-> inputData.documentResults,
     crossReferenceIssues |-> inputData.crossRefIssues,
     recommendation |->
        Recommendation(inputData.documentResults, inputData.crossRefIssues),
     paymentMode |-> inputData.paymentMode]

-----------------------------------------------------------------------------
(* Step 5: record-package.                                                  *)

\* recordPackageStep.execute: a failed embedding request is caught and
\* logged; the insert is awaited outside any try, so its failure is thrown.
recordPackageExecute(inputData, embedding, insert) ==
    IF insert = "fails"
    THEN [threw |-> TRUE, value |-> None]
    ELSE [threw |-> FALSE,
          value |-> Some(
            [packageId |-> "uuid",
             overallVerdict |-> inputData.overallVerdict,
             documentResults |-> inputData.documentResults,
             crossReferenceIssues |-> inputData.crossReferenceIssues,
             recommendation |-> inputData.recommendation,
             paymentMode |-> inputData.paymentMode])]

-----------------------------------------------------------------------------
(* Inputs.                                                                  *)

\* Document texts, by what follows the three date labels.
NoLabels == [latestShipment |-> Null, expiry |-> Null, shippedOnBoard |-> Null]
LabelledText ==
    [latestShipment |-> <<"2", "0", "2", "6", "-", "0", "2", "-", "1", "0">>, expiry |-> <<"1", "5", "/", "0", "2", "/", "2", "0", "2", "6">>,
     shippedOnBoard |-> <<"T", "B", "D">>]
Texts == {NoLabels, LabelledText}

\* The clock: midday of 12 and of 17 February 2026.
Clock == {DateValue(<<"2", "0", "2", "6", "-", "0", "2", "-", "1", "2">>) + 1, DateValue(<<"2", "0", "2", "6", "-", "0", "2", "-", "1", "7">>) + 1}

DocIssue(severity) ==
    [type |-> "internal", severity |-> severity,
     description |-> <<"document issue", severity>>]

\* Extracted data, per document type.
LcFull ==
    [EmptyData EXCEPT
        !.amount = <<"U", "S", "D", " ", "1", ",", "0", "0", "0", ".", "0", "0">>, !.goodsDescription = <<"C", "R", "U", "D", "E", " ", "O", "I", "L">>,
        !.expiryDate = <<"2", "0", "2", "6", "-", "0", "2", "-", "1", "5">>, !.latestShipmentDate = <<"2", "0", "2", "6", "-", "0", "2", "-", "1", "0">>,
        !.vesselName = <<"M", "V", " ", "S", "T", "A", "R">>, !.issuingBank = <<"N", "B", "K", " ", "B", "A", "N", "K">>,
        !.requiredInspectionCompany = <<"S", "G", "S">>,
        !.freightNotation = <<"F", "R", "E", "I", "G", "H", "T", " ", "P", "R", "E", "P", "A", "I", "D">>]
LcSparse == [EmptyData EXCEPT !.goodsDescription = <<"N", "/", "A">>]
BlClean ==
    [EmptyData EXCEPT
        !.goodsDescription = <<"C", "R", "U", "D", "E", " ", "O", "I", "L">>, !.shipmentDate = <<"2", "0", "2", "6", "-", "0", "2", "-", "1", "0">>,
        !.vesselName = <<"S", "t", "a", "r">>, !.consignee = <<"T", "O", " ", "O", "R", "D", "E", "R", " ", "O", "F", " ", "N", "B", "K">>,
        !.freightNotation = <<"F", "R", "E", "I", "G", "H", "T", " ", "P", "R", "E", "P", "A", "I", "D">>, !.carrierName = <<"M", "S", "C">>,
        !.carrierSignature = "true", !.shippedOnBoard = "true"]
BlConflicting ==
    [EmptyData EXCEPT
        !.goodsDescription = <<"C", "R", "U", "D", "E", " ", "O", "I", "L">>, !.shipmentDate = <<"2", "0", "2", "6", "-", "0", "2", "-", "2", "0">>,
        !.vesselName = <<"M", "T", " ", "S", "U", "N">>, !.consignee = <<"T", "O", " ", "O", "R", "D", "E", "R", " ", "O", "F", " ", "X", "Y", "Z">>,
        !.freightNotation = <<"F", "r", "e", "i", "g", "h", "t", " ", "C", "o", "l", "l", "e", "c", "t">>,
        !.carrierSignature = "false", !.shippedOnBoard = "false"]
BlNotToOrder == [EmptyData EXCEPT !.consignee = <<"A", "C", "M", "E">>, !.carrierName = <<"M", "S", "C">>]
InvoiceOver ==
    [EmptyData EXCEPT !.amount = <<"U", "S", "D", " ", "1", ",", "2", "0", "0", ".", "0", "0">>, !.goodsDescription = <<"C", "R", "U", "D", "E", " ", "O", "I", "L">>]
InvoiceWithin == [EmptyData EXCEPT !.amount = <<"U", "S", "D", " ", "1", ",", "0", "0", "0", ".", "0", "0">>]
PackingListData == [EmptyData EXCEPT !.goodsDescription = <<"C", "R", "U", "D", "E", " ", "O", "I", "L">>]
InsuranceLow == [EmptyData EXCEPT !.insuredValue = <<"U", "S", "D", " ", "1", ",", "0", "5", "0", ".", "0", "0">>]
InsuranceEnough == [EmptyData EXCEPT !.insuredValue = <<"U", "S", "D", " ", "1", ",", "3", "2", "0", ".", "0", "0">>]
InspectionBySgs == [EmptyData EXCEPT !.inspectionCompany = <<"S", "G", "S", " ", "G", "u", "l", "f">>]
InspectionByOther == [EmptyData EXCEPT !.inspectionCompany = <<"B", "V">>]

Profiles(type) ==
    CASE type = "letter_of_credit"       -> {LcFull, LcSparse}
      [] type = "bill_of_lading"         -> {BlClean, BlConflicting, BlNotToOrder}
      [] type = "commercial_invoice"     -> {InvoiceOver, InvoiceWithin}
      [] type = "packing_list"           -> {PackingListData}
      [] type = "certificate_of_origin"  -> {EmptyData}
      [] type = "insurance_certificate"  -> {InsuranceLow, InsuranceEnough}
      [] type = "inspection_certificate" -> {InspectionBySgs, InspectionByOther}

\* Sequences over S of length lo..hi.
SeqsOf(S, lo, hi) == UNION {[1..n -> S] : n \in lo..hi}

-----------------------------------------------------------------------------
(* The workflow: .then(prepareDocsStep)                                     *)
(*               .foreach(analyzeDocStep, { concurrency: 5 })               *)
(*               .then(crossReferenceStep).then(finalVerdictStep)           *)
(*               .then(recordPackageStep)                                   *)

\* Mutant of Concurrency: one call more.
ConcurrencyPlusOne == 5 + 1

Concurrency == 5

Running == {i \in 1..Len(status) : status[i] = "running"}

PrepareDocs ==
    /\ pc = "prepare-docs"
    /\ docInputs' = prepareDocsExecute(documents)
    /\ status' = [i \in 1..Len(documents) |-> "pending"]
    /\ analyzed' = [i \in 1..Len(documents) |-> None]
    /\ pc' = IF Len(documents) = 0 THEN "cross-reference" ELSE "analyze-doc"
    /\ UNCHANGED <<documents, extractorReply, xref, comparator, today, verdict,
                   persistence, output,
                   issuesSoFar, settled, invoked, returned>>

\* foreach starts the documents in input order, at most Concurrency at once.
StartAnalyze(i) ==
    /\ pc = "analyze-doc"
    /\ status[i] = "pending"
    /\ \A j \in 1..(i - 1) : status[j] # "pending"
    /\ Cardinality(Running) < Concurrency
    /\ status' = [status EXCEPT ![i] = "running"]
    /\ UNCHANGED <<pc, documents, extractorReply, docInputs, analyzed, xref,
                   comparator, today, verdict, persistence, output,
                   issuesSoFar, settled, invoked, returned>>

\* analyze-doc returns or throws for document i.  A step that throws fails
\* the run.  A returned object that is not of outputSchema either fails the
\* run or is passed on, as the framework's validation decides.
FinishAnalyze(i) ==
    /\ pc = "analyze-doc"
    /\ status[i] = "running"
    /\ LET r == analyzeDocExecute(docInputs[i], extractorReply[i]) IN
       \E enforced \in BOOLEAN :
          /\ (enforced => ~r.threw /\ ~IsDocumentResult(r.value[1]))
          /\ IF r.threw \/ enforced
             THEN /\ pc' = "failed"
                  /\ status' = [status EXCEPT ![i] = "failed"]
                  /\ analyzed' = analyzed
             ELSE /\ analyzed' = [analyzed EXCEPT ![i] = r.value]
                  /\ status' = [status EXCEPT ![i] = "done"]
                  /\ pc' = IF \A j \in 1..Len(status) : status'[j] = "done"
                           THEN "cross-reference" ELSE "analyze-doc"
    /\ UNCHANGED <<documents, extractorReply, docInputs, xref, comparator,
                   today, verdict, persistence, output,
                   issuesSoFar, settled, invoked, returned>>

\* What the comparator may do during one cross-reference run: the agent is
\* there or not; when it is, each compared document's call has an outcome.
CallOutcomes == {"match", "mismatch", "error", "unparseable"}

ComparatorBehaviours(documentResults) ==
    LET todo == DocsToCompare(documentResults)
        Called(i) == \E k \in 1..Len(todo) : todo[k] = i
    IN  {[agent |-> FALSE, calls |-> [i \in 1..Len(documentResults) |-> "not_called"]]}
        \cup
        {[agent |-> TRUE, calls |-> c] :
            c \in {f \in [1..Len(documentResults) -> CallOutcomes \cup {"not_called"}] :
                      \A i \in 1..Len(documentResults) :
                          (f[i] = "not_called") <=> ~Called(i)}}

\* The orders in which the calls for the documents todo may settle.
SettlingOrders(todo) ==
    LET docs == {todo[k] : k \in 1..Len(todo)}
    IN  {q \in [1..Len(todo) -> docs] : {q[k] : k \in 1..Len(todo)} = docs}

\* The results foreach hands to cross-reference.
Gathered == [i \in 1..Len(analyzed) |-> analyzed[i][1]]

CrossReference ==
    /\ pc = "cross-reference"
    /\ \E now \in Clock, cmp \in ComparatorBehaviours(Gathered),
          order \in SettlingOrders(DocsToCompare(Gathered)),
          rounding \in Roundings(Gathered),
          sumRounding \in SumRoundings(Gathered) :
          /\ xref' = Some(crossReferenceExecute(Gathered, now, cmp, order,
                                                rounding, sumRounding))
          /\ comparator' = cmp
          /\ today' = now
    /\ pc' = "final-verdict"
    /\ UNCHANGED <<documents, extractorReply, docInputs, status, analyzed,
                   verdict, persistence, output,
                   issuesSoFar, settled, invoked, returned>>

FinalVerdict ==
    /\ pc = "final-verdict"
    /\ verdict' = Some(finalVerdictExecute(xref[1]))
    /\ pc' = "record-package"
    /\ UNCHANGED <<documents, extractorReply, docInputs, status, analyzed, xref,
                   comparator, today, persistence, output,
                   issuesSoFar, settled, invoked, returned>>

RecordPackage ==
    /\ pc = "record-package"
    /\ \E embedding \in {"ok", "fails"}, insert \in {"ok", "fails"} :
          LET r == recordPackageExecute(verdict[1], embedding, insert) IN
          /\ persistence' = [embedding |-> embedding, insert |-> insert]
          /\ output' = r.value
          /\ pc' = IF r.threw THEN "failed" ELSE "success"
    /\ UNCHANGED <<documents, extractorReply, docInputs, status, analyzed, xref,
                   comparator, today, verdict,
                   issuesSoFar, settled, invoked, returned>>

Next ==
    \/ PrepareDocs
    \/ \E i \in 1..Len(status) : StartAnalyze(i)
    \/ \E i \in 1..Len(status) : FinishAnalyze(i)
    \/ CrossReference
    \/ FinalVerdict
    \/ RecordPackage

-----------------------------------------------------------------------------
(* Spec: the whole workflow, every behaviour of the extraction              *)
(* collaborator, on packages of letters of credit and bills of lading.      *)

MaxDocs == 2

WorkflowTypes == {"letter_of_credit", "bill_of_lading"}

ParsedReplies ==
    {[verdict |-> "GO", issues |-> Some(<<>>),
      extractedData |-> Some([EmptyData EXCEPT !.goodsDescription = <<"C", "R", "U", "D", "E", " ", "O", "I", "L">>,
                                               !.expiryDate = <<"2", "0", "2", "6", "-", "0", "3", "-", "0", "1">>,
                                               !.carrierName = <<"M", "S", "C">>])],
     [verdict |-> "undefined", issues |-> None, extractedData |-> None],
     [verdict |-> "MAYBE", issues |-> Some(<<>>), extractedData |-> Some(EmptyData)],
     [verdict |-> "NO_GO", issues |-> Some(<<DocIssue("critical")>>),
      extractedData |-> Some(EmptyData)]}

NoParsed == [verdict |-> "undefined", issues |-> None, extractedData |-> None]

ExtractorReplies ==
    {[kind |-> "no_agent", json |-> "none", parsed |-> NoParsed],
     [kind |-> "rejects", json |-> "none", parsed |-> NoParsed],
     [kind |-> "text", json |-> "none", parsed |-> NoParsed],
     [kind |-> "text", json |-> "malformed", parsed |-> NoParsed]}
    \cup {[kind |-> "text", json |-> "object", parsed |-> p] : p \in ParsedReplies}

NotStarted ==
    /\ pc = "prepare-docs"
    /\ docInputs = <<>> /\ status = <<>> /\ analyzed = <<>>
    /\ xref = None /\ verdict = None /\ output = None
    /\ comparator = [agent |-> FALSE, calls |-> <<>>]
    /\ today = 0
    /\ issuesSoFar = <<>> /\ settled = <<>>
    /\ invoked = None /\ returned = None
    /\ persistence = [embedding |-> "not_called", insert |-> "not_called"]

Init ==
    /\ documents \in SeqsOf([type : WorkflowTypes, text : Texts], 1, MaxDocs)
    /\ extractorReply \in [1..Len(documents) -> ExtractorReplies]
    /\ NotStarted

Spec == Init /\ [][Next]_vars

-----------------------------------------------------------------------------
(* SpecSched: the whole workflow on packages larger than the concurrency    *)
(* limit; at most one extraction call rejects.                              *)

MaxSchedDocs == 7

OkReply ==
    [kind |-> "text", json |-> "object",
     parsed |-> [verdict |-> "GO", issues |-> Some(<<>>),
                 extractedData |-> Some(EmptyData)]]
RejectReply == [kind |-> "rejects", json |-> "none", parsed |-> NoParsed]

InitSched ==
    /\ \E n \in 1..MaxSchedDocs :
          /\ documents = [i \in 1..n |-> [type |-> "bill_of_lading", text |-> NoLabels]]
          /\ \E bad \in 0..n :
                extractorReply = [i \in 1..n |-> IF i = bad THEN RejectReply ELSE OkReply]
    /\ NotStarted

SpecSched == InitSched /\ [][Next]_vars

-----------------------------------------------------------------------------
(* SpecXref: cross-reference and final-verdict on every package of up to    *)
(* MaxXrefDocs analysed documents drawn from the profiles.  The state is    *)
(* the one the workflow is in when foreach has gathered these results.      *)

MaxXrefDocs == 3

XrefDocs ==
    UNION {{[type |-> t, verdict |-> "GO", issues |-> <<>>,
             extractedData |-> p, rawText |-> NoLabels] : p \in Profiles(t)}
           : t \in DocumentTypes}

ReplyFor(d) ==
    [kind |-> "text", json |-> "object",
     parsed |-> [verdict |-> d.verdict, issues |-> Some(d.issues),
                 extractedData |-> Some(d.extractedData)]]

InitXref ==
    /\ \E ds \in SeqsOf(XrefDocs, 1, MaxXrefDocs) :
          /\ documents = [i \in 1..Len(ds) |-> [type |-> ds[i].type, text |-> NoLabels]]
          /\ extractorReply = [i \in 1..Len(ds) |-> ReplyFor(ds[i])]
          /\ docInputs = prepareDocsExecute(documents)
          /\ status = [i \in 1..Len(ds) |-> "done"]
          /\ analyzed = [i \in 1..Len(ds) |-> Some(ds[i])]
    /\ pc = "cross-reference"
    /\ xref = None /\ verdict = None /\ output = None
    /\ comparator = [agent |-> FALSE, calls |-> <<>>]
    /\ today = 0
    /\ issuesSoFar = <<>> /\ settled = <<>>
    /\ invoked = None /\ returned = None
    /\ persistence = [embedding |-> "not_called", insert |-> "not_called"]

NextXref == CrossReference \/ FinalVerdict

SpecXref == InitXref /\ [][NextXref]_vars

-----------------------------------------------------------------------------
(* SpecQty: cross-reference and final-verdict on packages of up to          *)
(* MaxQtyDocs analysed documents that state quantities, with and without a  *)
(* tolerance in the LC.                                                     *)

MaxQtyDocs == 3

\* An analysed document of this type and extracted data, verdict GO.
Analysed(type, data) ==
    [type |-> type, verdict |-> "GO", issues |-> <<>>,
     extractedData |-> data, rawText |-> NoLabels]

\* The workflow when foreach has gathered the results ds.
GatheredAs(ds) ==
    /\ documents = [i \in 1..Len(ds) |-> [type |-> ds[i].type, text |-> NoLabels]]
    /\ extractorReply = [i \in 1..Len(ds) |-> ReplyFor(ds[i])]
    /\ docInputs = prepareDocsExecute(documents)
    /\ status = [i \in 1..Len(ds) |-> "done"]
    /\ analyzed = [i \in 1..Len(ds) |-> Some(ds[i])]
    /\ pc = "cross-reference"
    /\ xref = None /\ verdict = None /\ output = None
    /\ comparator = [agent |-> FALSE, calls |-> <<>>]
    /\ today = 0
    /\ issuesSoFar = <<>> /\ settled = <<>>
    /\ invoked = None /\ returned = None
    /\ persistence = [embedding |-> "not_called", insert |-> "not_called"]

QtyDocs ==
    {Analysed("letter_of_credit", d) :
        d \in {[EmptyData EXCEPT !.quantity = <<"1", "0", "0", " ", "M", "T">>],
               [EmptyData EXCEPT !.quantity = <<"1", "0", "0", " ", "M", "T">>,
                                 !.quantityTolerance = <<"+", "/", "-", " ", "1", "0", "%">>],
               [EmptyData EXCEPT !.quantity = <<"1", "0", "0", " ", "M", "T">>,
                                 !.quantityTolerance = <<"A", "S", " ", "P", "E", "R", " ", "C", "O", "N", "T", "R", "A", "C", "T">>],
               [EmptyData EXCEPT !.quantityTolerance = <<"2", ".", "5", " ", "P", "C", "T", " ", "M", "O", "R", "E", " ", "O", "R", " ", "L", "E", "S", "S">>]}}
    \cup
    {Analysed("bill_of_lading", [EmptyData EXCEPT !.quantity = q]) :
        q \in {<<"1", "0", "5", " ", "M", "T">>, <<"1", "0", "5", ".", "0", "1", " ", "M", "T">>, <<"1", "1", "0", " ", "M", "T">>, <<"2", "4", ".", "3", "6", " ", "M", "T">>, <<"N", "/", "A">>}}
    \cup
    {Analysed("commercial_invoice", [EmptyData EXCEPT !.quantity = q]) :
        q \in {<<"2", "3", ".", "2", "0", " ", "M", "T">>, <<"1", "1", "0", ".", "0", "1", " ", "M", "T">>, <<"0", " ", "M", "T">>}}

InitQty == \E ds \in SeqsOf(QtyDocs, 1, MaxQtyDocs) : GatheredAs(ds)

SpecQty == InitQty /\ [][NextXref]_vars

-----------------------------------------------------------------------------
(* SpecAmt: cross-reference and final-verdict on packages of up to          *)
(* MaxAmtDocs letters of credit and invoices with and without amounts.      *)

MaxAmtDocs == 3

AmtDocs ==
    {Analysed("letter_of_credit", [EmptyData EXCEPT !.amount = a]) :
        a \in {<<"U", "S", "D", " ", "1", "5", "0", ",", "0", "0", "0", ".", "0", "0">>, <<"U", "S", "D", " ", "0", ".", "0", "0">>, Null}}
    \cup
    {Analysed("commercial_invoice", [EmptyData EXCEPT !.amount = a]) :
        a \in {<<"U", "S", "D", " ", "1", "6", "2", ",", "5", "0", "0", ".", "0", "0">>, <<"U", "S", "D", " ", "1", "5", "0", ",", "0", "0", "0", ".", "0", "0">>, <<"U", "S", "D", " ", "1", "4", "9", ",", "9", "9", "9", ".", "9", "9">>,
               <<"T", "B", "D">>, Null}}

InitAmt == \E ds \in SeqsOf(AmtDocs, 1, MaxAmtDocs) : GatheredAs(ds)

SpecAmt == InitAmt /\ [][NextXref]_vars

-----------------------------------------------------------------------------
(* SpecPorts: cross-reference and final-verdict on packages of up to        *)
(* MaxPortDocs analysed documents that name ports.                          *)

MaxPortDocs == 3

PortDocs ==
    {Analysed("letter_of_credit",
              [EmptyData EXCEPT !.portOfLoading = l, !.portOfDischarge = d]) :
        l \in {<<"K", "U", "W", "A", "I", "T">>, <<"M", "I", "N", "A", " ", "A", "L", " ", "A", "H", "M", "A", "D", "I", ",", " ", "K", "U", "W", "A", "I", "T">>},
        d \in {Null, <<"J", "E", "B", "E", "L", " ", "A", "L", "I", ",", " ", "U", "A", "E">>}}
    \cup
    {Analysed("bill_of_lading",
              [EmptyData EXCEPT !.portOfLoading = l, !.portOfDischarge = d]) :
        l \in {<<"M", "i", "n", "a", " ", "A", "l", " ", "A", "h", "m", "a", "d", "i", " ", "T", "e", "r", "m", "i", "n", "a", "l">>, <<"M", "I", "N", "A", " ", "A", "B", "D", "U", "L", "L", "A", "H">>},
        d \in {<<"J", "E", "B", "E", "L", " ", "A", "L", "I">>, <<"F", "U", "J", "A", "I", "R", "A", "H">>}}
    \cup
    {Analysed("commercial_invoice", [EmptyData EXCEPT !.portOfLoading = l]) :
        l \in {<<"M", "I", "N", "A", " ", "A", "B", "D", "U", "L", "L", "A", "H">>, <<"N", "/", "A">>}}
    \cup
    {Analysed("packing_list", [EmptyData EXCEPT !.portOfLoading = <<"S", "H", "U", "A", "I", "B", "A">>])}

InitPorts == \E ds \in SeqsOf(PortDocs, 1, MaxPortDocs) : GatheredAs(ds)

SpecPorts == InitPorts /\ [][NextXref]_vars

-----------------------------------------------------------------------------
(* SpecDates: cross-reference and final-verdict on packages of up to        *)
(* MaxDateDocs letters of credit, bills of lading and invoices whose dates  *)
(* are ISO dates, unparseable text, or absent.                              *)

MaxDateDocs == 3

DateDocs ==
    {Analysed("letter_of_credit",
              [EmptyData EXCEPT !.expiryDate = d[1], !.latestShipmentDate = d[2]]) :
        d \in {<<<<"2", "0", "2", "6", "-", "0", "2", "-", "1", "2">>, <<"2", "0", "2", "6", "-", "0", "2", "-", "1", "0">>>>, <<<<"2", "0", "2", "6", "-", "0", "2", "-", "1", "7">>, <<"2", "0", "2", "6", "-", "0", "2", "-", "1", "0">>>>,
               <<<<"2", "0", "2", "6", "-", "0", "2", "-", "1", "7">>, Null>>, <<<<"T", "B", "D">>, <<"2", "0", "2", "6", "-", "0", "2", "-", "1", "2">>>>,
               <<Null, <<"T", "B", "D">>>>, <<<<"2", "0", "2", "6", "-", "0", "2", "-", "1", "0">>, Null>>}}
    \cup
    {Analysed("bill_of_lading", [EmptyData EXCEPT !.shipmentDate = d]) :
        d \in {<<"2", "0", "2", "6", "-", "0", "2", "-", "1", "0">>, <<"2", "0", "2", "6", "-", "0", "2", "-", "1", "1">>, <<"2", "0", "2", "6", "-", "0", "2", "-", "1", "2">>, <<"2", "0", "2", "6", "-", "0", "2", "-", "1", "3">>,
               <<"2", "0", "2", "6", "-", "0", "2", "-", "2", "0">>, <<"T", "B", "D">>, Null}}
    \cup
    {Analysed("commercial_invoice", EmptyData)}

InitDates == \E ds \in SeqsOf(DateDocs, 1, MaxDateDocs) : GatheredAs(ds)

SpecDates == InitDates /\ [][NextXref]_vars

-----------------------------------------------------------------------------
(* SpecPacking: cross-reference and final-verdict on packages of up to      *)
(* MaxPackingDocs documents, among them packing lists with line items and   *)
(* printed totals (hundredths of a kg).                                     *)

MaxPackingDocs == 3

PackingDocs ==
    {Analysed("packing_list",
              [EmptyData EXCEPT !.packingListItems = p[1],
                                !.packingListTotalNet = p[2]]) :
        p \in {<<Some(<<1000000, 948000>>), 1950000>>,
               <<Some(<<1000000, 950000>>), 1950000>>,
               <<Some(<<1010, 1020>>), 2130>>,
               <<Some(<<1000, 1000>>), 2100>>,
               <<Some(<<1000, 1000>>), 2101>>,
               <<Some(<<1000, 1000>>), 1899>>,
               <<Some(<<5000>>), 0>>,
               <<Some(<<5000>>), NoNumber>>,
               <<Some(<<>>), 2000>>,
               <<None, 2000>>}}
    \cup
    {Analysed("letter_of_credit", EmptyData),
     Analysed("commercial_invoice", EmptyData)}

InitPacking == \E ds \in SeqsOf(PackingDocs, 1, MaxPackingDocs) : GatheredAs(ds)

SpecPacking == InitPacking /\ [][NextXref]_vars

-----------------------------------------------------------------------------
(* SpecClean: cross-reference and final-verdict on packages of one letter   *)
(* of credit and one bill of lading, in either order, whose shared fields   *)
(* carry agreeing values and whose other fields are present or absent.      *)

CleanLcs ==
    {Analysed("letter_of_credit",
              [EmptyData EXCEPT !.amount = <<"U", "S", "D", " ", "1", "5", "0", ",", "0", "0", "0", ".", "0", "0">>,
                                !.portOfLoading = <<"H", "O", "U", "S", "T", "O", "N", ",", " ", "T", "E", "X", "A", "S">>,
                                !.portOfDischarge = <<"J", "E", "B", "E", "L", " ", "A", "L", "I", ",", " ", "U", "A", "E">>,
                                !.goodsDescription = <<"5", "0", "0", " ", "M", "T", " ", "P", "O", "L", "Y", "E", "T", "H", "Y", "L", "E", "N", "E", " ", "R", "E", "S", "I", "N">>,
                                !.quantity = <<"5", "0", "0", " ", "M", "T">>,
                                !.vesselName = <<"M", "V", " ", "M", "A", "E", "R", "S", "K", " ", "S", "E", "L", "E", "T", "A", "R">>,
                                !.expiryDate = d[1],
                                !.latestShipmentDate = d[2],
                                !.issuingBank = bank]) :
        d \in {<<Null, Null>>, <<<<"2", "0", "2", "6", "-", "0", "2", "-", "1", "0">>, Null>>,
               <<<<"2", "0", "2", "6", "-", "0", "2", "-", "1", "2">>, <<"2", "0", "2", "6", "-", "0", "2", "-", "1", "1">>>>, <<<<"2", "0", "2", "6", "-", "0", "2", "-", "2", "0">>, <<"2", "0", "2", "6", "-", "0", "2", "-", "1", "1">>>>},
        bank \in {Null, <<"E", "M", "I", "R", "A", "T", "E", "S", " ", "N", "B", "D">>}}

CleanBls ==
    {Analysed("bill_of_lading",
              [EmptyData EXCEPT !.portOfLoading = <<"H", "O", "U", "S", "T", "O", "N", ",", " ", "T", "E", "X", "A", "S">>,
                                !.portOfDischarge = <<"J", "E", "B", "E", "L", " ", "A", "L", "I", ",", " ", "U", "A", "E">>,
                                !.quantity = <<"5", "0", "0", " ", "M", "T">>,
                                !.vesselName = <<"M", "A", "E", "R", "S", "K", " ", "S", "E", "L", "E", "T", "A", "R">>,
                                !.goodsDescription = goods,
                                !.consignee = consignee,
                                !.shipmentDate = shipped,
                                !.carrierName = carrier,
                                !.carrierSignature = signed,
                                !.shippedOnBoard = onBoard]) :
        goods \in {Null, <<"5", "0", "0", " ", "M", "T", " ", "P", "O", "L", "Y", "E", "T", "H", "Y", "L", "E", "N", "E", " ", "R", "E", "S", "I", "N">>},
        consignee \in {<<"T", "O", " ", "O", "R", "D", "E", "R", " ", "O", "F", " ", "E", "M", "I", "R", "A", "T", "E", "S", " ", "N", "B", "D">>, <<"A", "C", "M", "E", " ", "T", "R", "A", "D", "I", "N", "G", " ", "L", "L", "C">>},
        shipped \in {Null, <<"2", "0", "2", "6", "-", "0", "2", "-", "1", "0">>, <<"2", "0", "2", "6", "-", "0", "2", "-", "1", "3">>},
        carrier \in {Null, <<"M", "A", "E", "R", "S", "K", " ", "L", "I", "N", "E">>},
        signed \in {"undefined", "true", "false"},
        onBoard \in {"undefined", "false"}}

InitClean ==
    \E lc \in CleanLcs, bl \in CleanBls :
        GatheredAs(<<lc, bl>>) \/ GatheredAs(<<bl, lc>>)

SpecClean == InitClean /\ [][NextXref]_vars

-----------------------------------------------------------------------------
(* SpecSentinel: cross-reference and final-verdict on packages of one       *)
(* letter of credit and one bill of lading, in either order, some of whose  *)
(* fields hold a "not specified" sentinel in place of a value.              *)

SentinelLcs ==
    {Analysed("letter_of_credit",
              [EmptyData EXCEPT !.issuingBank = bank,
                                !.vesselName = vessel,
                                !.freightNotation = freight,
                                !.portOfLoading = <<"H", "O", "U", "S", "T", "O", "N", ",", " ", "T", "E", "X", "A", "S">>,
                                !.goodsDescription = goods,
                                !.quantity = <<"5", "0", "0", " ", "M", "T">>]) :
        bank \in {<<"E", "M", "I", "R", "A", "T", "E", "S", " ", "N", "B", "D">>, <<"N", "/", "A">>},
        vessel \in {<<"M", "V", " ", "M", "A", "E", "R", "S", "K", " ", "S", "E", "L", "E", "T", "A", "R">>, <<"n", "o", "t", " ", "s", "p", "e", "c", "i", "f", "i", "e", "d">>},
        freight \in {<<"F", "R", "E", "I", "G", "H", "T", " ", "P", "R", "E", "P", "A", "I", "D">>, <<"-">>},
        goods \in {<<"5", "0", "0", " ", "M", "T", " ", "P", "O", "L", "Y", "E", "T", "H", "Y", "L", "E", "N", "E", " ", "R", "E", "S", "I", "N">>, <<"N", "/", "A">>}}

SentinelBls ==
    {Analysed("bill_of_lading",
              [EmptyData EXCEPT !.carrierName = <<"M", "A", "E", "R", "S", "K", " ", "L", "I", "N", "E">>,
                                !.consignee = consignee,
                                !.vesselName = vessel,
                                !.freightNotation = freight,
                                !.portOfLoading = port,
                                !.goodsDescription = <<"P", "O", "L", "Y", "E", "T", "H", "Y", "L", "E", "N", "E">>,
                                !.quantity = quantity]) :
        consignee \in {<<"T", "O", " ", "O", "R", "D", "E", "R", " ", "O", "F", " ", "E", "M", "I", "R", "A", "T", "E", "S", " ", "N", "B", "D">>, <<"N", "/", "A">>, <<>>},
        vessel \in {<<"M", "A", "E", "R", "S", "K", " ", "S", "E", "L", "E", "T", "A", "R">>, <<"E", "V", "E", "R", " ", "G", "I", "V", "E", "N">>, <<"N", "A">>},
        freight \in {<<"F", "R", "E", "I", "G", "H", "T", " ", "C", "O", "L", "L", "E", "C", "T">>, <<"N", "o", "t", " ", "A", "p", "p", "l", "i", "c", "a", "b", "l", "e">>},
        port \in {<<"R", "O", "T", "T", "E", "R", "D", "A", "M">>, <<"-">>},
        quantity \in {<<"9", "0", "0", " ", "M", "T">>, <<"n", "/", "a">>}}

InitSentinel ==
    \E lc \in SentinelLcs, bl \in SentinelBls :
        GatheredAs(<<lc, bl>>) \/ GatheredAs(<<bl, lc>>)

SpecSentinel == InitSentinel /\ [][NextXref]_vars

-----------------------------------------------------------------------------
(* SpecMulti: cross-reference and final-verdict on packages of up to        *)
(* MaxMultiDocs documents, among them several certificates that name an     *)
(* inspection company or carry a date.                                      *)

MaxMultiDocs == 4

MultiDocs ==
    {Analysed("letter_of_credit",
              [EmptyData EXCEPT !.requiredInspectionCompany = <<"S", "G", "S">>]),
     Analysed("bill_of_lading",
              [EmptyData EXCEPT !.shipmentDate = <<"2", "0", "2", "6", "-", "0", "2", "-", "1", "0">>,
                                !.carrierName = <<"M", "S", "C">>]),
     Analysed("inspection_certificate",
              [EmptyData EXCEPT !.inspectionCompany = <<"B", "V">>,
                                !.inspectionDate = <<"2", "0", "2", "6", "-", "0", "2", "-", "1", "3">>]),
     Analysed("inspection_certificate",
              [EmptyData EXCEPT !.inspectionCompany = <<"I", "n", "t", "e", "r", "t", "e", "k">>,
                                !.inspectionDate = <<"2", "0", "2", "6", "-", "0", "2", "-", "1", "4">>]),
     Analysed("inspection_certificate",
              [EmptyData EXCEPT !.inspectionCompany = <<"S", "G", "S", " ", "G", "u", "l", "f">>,
                                !.inspectionDate = <<"2", "0", "2", "6", "-", "0", "2", "-", "0", "9">>]),
     Analysed("certificate_of_quality",
              [EmptyData EXCEPT !.inspectionCompany = <<"B", "V">>,
                                !.issueDate = <<"2", "0", "2", "6", "-", "0", "2", "-", "1", "3">>]),
     Analysed("certificate_of_origin",
              [EmptyData EXCEPT !.issueDate = <<"2", "0", "2", "6", "-", "0", "2", "-", "1", "2">>]),
     Analysed("certificate_of_origin",
              [EmptyData EXCEPT !.issueDate = <<"2", "0", "2", "6", "-", "0", "2", "-", "1", "1">>])}

InitMulti == \E ds \in SeqsOf(MultiDocs, 1, MaxMultiDocs) : GatheredAs(ds)

SpecMulti == InitMulti /\ [][NextXref]_vars

-----------------------------------------------------------------------------
(* SpecCompare: cross-reference taken one step at a time on packages of up  *)
(* to MaxCompareDocs documents that describe the goods.  The step runs its  *)
(* first rules, starts one comparator call per compared document and awaits *)
(* them all; the calls settle one at a time, in any order, and a call may   *)
(* never settle.  SpecCompareFair adds that a step that can run does run.   *)

MaxCompareDocs == 3

CompareDocs ==
    {Analysed("letter_of_credit",
              [EmptyData EXCEPT !.goodsDescription = <<"5", "0", "0", " ", "M", "T", " ", "P", "O", "L", "Y", "E", "T", "H", "Y", "L", "E", "N", "E", " ", "R", "E", "S", "I", "N">>]),
     Analysed("commercial_invoice",
              [EmptyData EXCEPT !.goodsDescription = <<"P", "O", "L", "Y", "E", "T", "H", "Y", "L", "E", "N", "E", " ", "R", "E", "S", "I", "N">>]),
     Analysed("bill_of_lading",
              [EmptyData EXCEPT !.goodsDescription = <<"P", "L", "A", "S", "T", "I", "C", " ", "R", "E", "S", "I", "N">>]),
     Analysed("packing_list",
              [EmptyData EXCEPT !.goodsDescription = <<"N", "/", "A">>])}

InitCompare == \E ds \in SeqsOf(CompareDocs, 1, MaxCompareDocs) : GatheredAs(ds)

\* extractor.generate(prompt, {}) is awaited with no time limit: besides the
\* outcomes of a call that settles, the call may stay pending for ever.
PendingOutcomes == CallOutcomes \cup {"never"}

\* What the comparator will do in this run: without an agent no call goes
\* out; with one, each compared document's call has an outcome.
Answers(cmp) ==
    LET todo == DocsToCompare(Gathered)
    IN  \A i \in 1..Len(analyzed) :
            (cmp.calls[i] = "not_called")
                <=> (~cmp.agent \/ \A k \in 1..Len(todo) : todo[k] # i)

\* crossReferenceStep.execute up to its await: the rules before the goods
\* description have pushed their issues and every comparator call is out.
CallComparators ==
    /\ pc = "cross-reference"
    /\ comparator' \in [agent : BOOLEAN,
                        calls : [1..Len(analyzed) -> PendingOutcomes \cup {"not_called"}]]
    /\ Answers(comparator')
    /\ \E now \in Clock, rounding \in Roundings(Gathered) :
          /\ today' = now
          /\ issuesSoFar' = IssuesBeforeComparisons(Gathered, PaymentModeOf(Gathered),
                                                    now, rounding)
    /\ settled' = <<>>
    /\ pc' = "awaiting-comparisons"
    /\ UNCHANGED <<documents, extractorReply, docInputs, status, analyzed, xref,
                   verdict, persistence, output,
                   invoked, returned>>

\* The comparator call for document i settles (a call without an agent
\* returns at once; a call that never responds does not settle).
Settle(i) ==
    /\ pc = "awaiting-comparisons"
    /\ \E k \in 1..Len(DocsToCompare(Gathered)) : DocsToCompare(Gathered)[k] = i
    /\ \A k \in 1..Len(settled) : settled[k] # i
    /\ comparator.agent => comparator.calls[i] # "never"
    /\ settled' = Append(settled, i)
    /\ UNCHANGED <<pc, documents, extractorReply, docInputs, status, analyzed, xref,
                   comparator, today, issuesSoFar, verdict, persistence, output,
                   invoked, returned>>

\* Promise.all resolves once every call has settled; the step pushes the
\* goods description issue, runs the remaining rules and returns.
FinishCrossReference ==
    /\ pc = "awaiting-comparisons"
    /\ Len(settled) = Len(DocsToCompare(Gathered))
    /\ \E sumRounding \in SumRoundings(Gathered) :
          LET paymentMode == PaymentModeOf(Gathered)
              all == issuesSoFar
                     \o GoodsDescriptionIssues(Gathered, comparator, settled)
                     \o IssuesAfterComparisons(Gathered, paymentMode, sumRounding)
          IN  /\ issuesSoFar' = all
              /\ xref' = Some([crossRefIssues |-> all,
                               documentResults |-> Gathered,
                               paymentMode |-> paymentMode])
    /\ pc' = "final-verdict"
    /\ UNCHANGED <<documents, extractorReply, docInputs, status, analyzed,
                   comparator, today, settled, verdict, persistence, output,
                   invoked, returned>>

NextCompare ==
    \/ CallComparators
    \/ \E i \in 1..Len(analyzed) : Settle(i)
    \/ FinishCrossReference
    \/ FinalVerdict

SpecCompare == InitCompare /\ [][NextCompare]_vars

\* The event loop runs a continuation that is ready: while a call that has
\* an outcome is yet to settle, or a step's awaits have resolved, the
\* workflow does not stand still.
SpecCompareFair == InitCompare /\ [][NextCompare]_vars /\ WF_vars(NextCompare)

-----------------------------------------------------------------------------
(* SpecMatch: portsMatch and namesMatch called on their own, on every pair  *)
(* of the sample strings below (undefined and the empty string included).   *)

\* No workflow is running.
NoWorkflow ==
    /\ pc = "none"
    /\ documents = <<>> /\ extractorReply = <<>> /\ docInputs = <<>>
    /\ status = <<>> /\ analyzed = <<>>
    /\ xref = None /\ verdict = None /\ output = None
    /\ comparator = [agent |-> FALSE, calls |-> <<>>]
    /\ today = 0
    /\ issuesSoFar = <<>> /\ settled = <<>>
    /\ persistence = [embedding |-> "not_called", insert |-> "not_called"]

MatchSamples ==
    {Null, <<>>, <<"J", "E", "B", "E", "L", " ", "D", "H", "A", "N", "N", "A", ",", " ", "A", "B", "U", " ", "D", "H", "A", "B", "I", ",", " ", "U", "A", "E">>, <<"J", "e", "b", "e", "l", " ", "D", "h", "a", "n", "n", "a", " ", "T", "e", "r", "m", "i", "n", "a", "l">>,
     <<"J", "E", "B", "E", "L", " ", "D", "H", "A", "N", "N", "A", " ", "F", "R", "E", "E", " ", "Z", "O", "N", "E">>, <<"M", "I", "N", "A", " ", "A", "L", " ", "A", "H", "M", "A", "D", "I", ",", " ", "K", "U", "W", "A", "I", "T">>, <<"M", "I", "N", "A", " ", "A", "L", " ", "F", "A", "H", "A", "L">>,
     <<"M", "I", "N", "A">>, <<"K", "U", "W", "A", "I", "T">>, <<"N", "E", "W", " ", "Y", "O", "R", "K">>, <<"N", "e", "w", " ", " ", "Y", "o", "r", "k", " ", "H", "a", "r", "b", "o", "r", ".">>,
     <<"A", "D", "N", "O", "C", " ", "T", "R", "A", "D", "I", "N", "G", " ", "L", "L", "C">>, <<"a", "d", "n", "o", "c", " ", "t", "r", "a", "d", "i", "n", "g">>, <<"A", "D", "N", "O", "C">>, <<"A", ".", "D", ".", "N", ".", "O", ".", "C", ".", " ", "T", "r", "a", "d", "i", "n", "g", " ", "L", "t", "d", ".">>,
     <<"A", "D", "N", "O", "C", "-", "T", "R", "A", "D", "I", "N", "G", " ", "C", "O">>, <<"K", "P", "C", " ", "T", "R", "A", "D", "I", "N", "G", " ", "L", "I", "M", "I", "T", "E", "D">>, <<"K", "P", "C", " ", "T", "r", "a", "d", "i", "n", "g", " ", "C", "o", ".", ",", " ", "L", "t", "d", ".">>,
     <<"T", "E", "X", "A", "C", "O">>, <<"L", "L", "C">>}

\* The helper invoked with these arguments returns this.
Apply(c) ==
    CASE c.fn = "portsMatch"     -> portsMatch(c.args[1], c.args[2])
      [] c.fn = "namesMatch"     -> namesMatch(c.args[1], c.args[2])
      [] c.fn = "parseToISODate" -> parseToISODate(c.args[1])

\* The call returns.
Return ==
    /\ invoked # None
    /\ returned = None
    /\ returned' = Some(Apply(invoked[1]))
    /\ UNCHANGED <<pc, documents, extractorReply, docInputs, status, analyzed, xref,
                   comparator, today, issuesSoFar, settled, verdict, persistence,
                   output, invoked>>

InitMatch ==
    /\ \E fn \in {"portsMatch", "namesMatch"}, a \in MatchSamples, b \in MatchSamples :
          invoked = Some([fn |-> fn, args |-> <<a, b>>])
    /\ returned = None
    /\ NoWorkflow

NextMatch == Return

SpecMatch == InitMatch /\ [][NextMatch]_vars

-----------------------------------------------------------------------------
(* SpecParse: parseToISODate called on its own, on calendar dates written   *)
(* in each format and on other texts, and called again on what it returned. *)

MonthNames ==
    <<<<"J", "a", "n", "u", "a", "r", "y">>, <<"F", "e", "b", "r", "u", "a", "r", "y">>, <<"M", "a", "r", "c", "h">>, <<"A", "p", "r", "i", "l">>, <<"M", "a", "y">>, <<"J", "u", "n", "e">>, <<"J", "u", "l", "y">>,
      <<"A", "u", "g", "u", "s", "t">>, <<"S", "e", "p", "t", "e", "m", "b", "e", "r">>, <<"O", "c", "t", "o", "b", "e", "r">>, <<"N", "o", "v", "e", "m", "b", "e", "r">>, <<"D", "e", "c", "e", "m", "b", "e", "r">>>>

\* Calendar dates: a one-digit and a two-digit day in every month of 2026,
\* the leap day of 2024 and the last day of 1999.
CalendarDates ==
    {[y |-> 2026, m |-> m, d |-> d] : m \in 1..12, d \in {5, 15}}
    \cup {[y |-> 2024, m |-> 2, d |-> 29], [y |-> 1999, m |-> 12, d |-> 31]}

\* String(n) and its zero-padded forms.
NatToString(n) ==
    IF n < 10 THEN <<DigitChars[n + 1]>>
    ELSE IF n < 100 THEN <<DigitChars[(n \div 10) + 1], DigitChars[(n % 10) + 1]>>
    ELSE <<DigitChars[(n \div 1000) + 1], DigitChars[((n \div 100) % 10) + 1],
           DigitChars[((n \div 10) % 10) + 1], DigitChars[(n % 10) + 1]>>

TwoDigits(n) == PadStart2(NatToString(n))

\* The ISO form of a calendar date.
ISO(date) ==
    NatToString(date.y) \o <<"-">> \o TwoDigits(date.m) \o <<"-">> \o TwoDigits(date.d)

DateFormats ==
    {"YYYY-MM-DD", "DD/MM/YYYY", "DD-MM-YYYY",
     "D Month YYYY", "D Mon YYYY", "D Month, YYYY", "D Mon, YYYY",
     "Month D, YYYY", "Mon D, YYYY", "Month D YYYY", "Mon D YYYY"}

\* A calendar date written in a format.
Render(date, format) ==
    LET y     == NatToString(date.y)
        day   == NatToString(date.d)
        month == MonthNames[date.m]
        mon   == Take(month, 3)
    IN  CASE format = "YYYY-MM-DD"    -> ISO(date)
          [] format = "DD/MM/YYYY"    -> TwoDigits(date.d) \o <<"/">> \o TwoDigits(date.m) \o <<"/">> \o y
          [] format = "DD-MM-YYYY"    -> TwoDigits(date.d) \o <<"-">> \o TwoDigits(date.m) \o <<"-">> \o y
          [] format = "D Month YYYY"  -> day \o <<" ">> \o month \o <<" ">> \o y
          [] format = "D Mon YYYY"    -> day \o <<" ">> \o mon \o <<" ">> \o y
          [] format = "D Month, YYYY" -> day \o <<" ">> \o month \o <<",", " ">> \o y
          [] format = "D Mon, YYYY"   -> day \o <<" ">> \o mon \o <<",", " ">> \o y
          [] format = "Month D, YYYY" -> month \o <<" ">> \o day \o <<",", " ">> \o y
          [] format = "Mon D, YYYY"   -> mon \o <<" ">> \o day \o <<",", " ">> \o y
          [] format = "Month D YYYY"  -> month \o <<" ">> \o day \o <<" ">> \o y
          [] format = "Mon D YYYY"    -> mon \o <<" ">> \o day \o <<" ">> \o y

\* Other arguments: nothing, blanks around a date, text around a date,
\* words that are not month names, digits that are no calendar date.
OtherTexts ==
    {Null, <<>>, <<" ", " ", "2", "0", "2", "6", "-", "0", "2", "-", "1", "5", " ">>, <<"O", "N", " ", "1", "5", " ", "F", "E", "B", "R", "U", "A", "R", "Y", " ", "2", "0", "2", "6", " ", "A", "T", " ", "N", "O", "O", "N">>, <<"S", "e", "p", "t", " ", "5", ",", " ", "2", "0", "2", "6">>,
     <<"1", "5", " ", "F", "e", "b", "r", " ", "2", "0", "2", "6">>, <<"1", "5", " ", "c", "o", "n", "s", "t", "r", "u", "c", "t", "o", "r", " ", "2", "0", "2", "6">>, <<"C", "o", "n", "s", "t", "r", "u", "c", "t", "o", "r", " ", "1", "5", ",", " ", "2", "0", "2", "6">>,
     <<"3", "1", "/", "0", "2", "/", "2", "0", "2", "6">>, <<"5", "/", "2", "/", "2", "0", "2", "6">>, <<"2", "0", "2", "6", "/", "0", "2", "/", "1", "5">>, <<"1", "5", ".", "0", "2", ".", "2", "0", "2", "6">>, <<"1", "1", "5", " ", "F", "e", "b", " ", "2", "0", "2", "6">>,
     <<"n", "o", "t", " ", "a", " ", "d", "a", "t", "e">>}

ParseTexts == {Render(date, f) : date \in CalendarDates, f \in DateFormats} \cup OtherTexts

InitParse ==
    /\ \E text \in ParseTexts :
          invoked = Some([fn |-> "parseToISODate", args |-> <<text>>])
    /\ returned = None
    /\ NoWorkflow

\* The caller hands a result that is not null back to parseToISODate.
ParseAgain ==
    /\ invoked # None /\ invoked[1].fn = "parseToISODate"
    /\ returned # None /\ returned[1] # Null
    /\ invoked' = Some([fn |-> "parseToISODate", args |-> <<returned[1]>>])
    /\ returned' = None
    /\ UNCHANGED <<pc, documents, extractorReply, docInputs, status, analyzed, xref,
                   comparator, today, issuesSoFar, settled, verdict, persistence,
                   output>>

NextParse == Return \/ ParseAgain

SpecParse == InitParse /\ [][NextParse]_vars

-----------------------------------------------------------------------------
(* SpecVerdict: final-verdict as a function of its input, on every input    *)
(* of up to MaxVerdictDocs documents with up to MaxDocIssues issues each    *)
(* and up to MaxCrossRefIssues cross-reference issues.                      *)

MaxVerdictDocs == 2
MaxDocIssues == 1
MaxCrossRefIssues == 1

VerdictDocs ==
    {[type |-> "bill_of_lading", verdict |-> v, issues |-> is,
      extractedData |-> EmptyData, rawText |-> NoLabels] :
        v \in Verdicts,
        is \in SeqsOf({DocIssue(s) : s \in Severities}, 0, MaxDocIssues)}

VerdictCrossRefIssues ==
    {Issue("quantity", <<"A", "B">>, <<"A", "B">>, s, <<"cross-reference issue", s>>) :
        s \in Severities}

InitVerdict ==
    /\ \E ds \in SeqsOf(VerdictDocs, 0, MaxVerdictDocs),
          cs \in SeqsOf(VerdictCrossRefIssues, 0, MaxCrossRefIssues),
          mode \in {"lc", "no_lc"} :
          xref = Some([crossRefIssues |-> cs, documentResults |-> ds,
                       paymentMode |-> mode])
    /\ pc = "final-verdict"
    /\ documents = <<>> /\ extractorReply = <<>> /\ docInputs = <<>>
    /\ status = <<>> /\ analyzed = <<>>
    /\ verdict = None /\ output = None
    /\ comparator = [agent |-> FALSE, calls |-> <<>>]
    /\ today = 0
    /\ issuesSoFar = <<>> /\ settled = <<>>
    /\ invoked = None /\ returned = None
    /\ persistence = [embedding |-> "not_called", insert |-> "not_called"]

NextVerdict == FinalVerdict

SpecVerdict == InitVerdict /\ [][NextVerdict]_vars

-----------------------------------------------------------------------------
(* Claims on final-verdict (SpecVerdict).                                   *)

Range(s) == {s[i] : i \in 1..Len(s)}

\* What the final-verdict step was given and what it returned.
VerdictIn == xref[1]
VerdictOut == verdict[1]

\* The severities of the document-level issues and of the cross-reference
\* issues, and the documents' own verdicts, in the input of final-verdict.
DocIssueSeverities ==
    UNION {{i.severity : i \in Range(d.issues)} : d \in Range(VerdictIn.documentResults)}
CrossRefSeverities == {i.severity : i \in Range(VerdictIn.crossRefIssues)}
DocVerdicts == {d.verdict : d \in Range(VerdictIn.documentResults)}

\* C1: the final-verdict step returns NO_GO exactly when some document-level
\* or cross-reference issue is critical or some document's verdict is NO_GO;
\* otherwise WAIT exactly when some issue is major, some document's verdict
\* is WAIT or the cross-reference issue list is non-empty; otherwise GO.
C1_VerdictRollup ==
    verdict # None =>
        LET stop == \/ "critical" \in DocIssueSeverities \cup CrossRefSeverities
                    \/ "NO_GO" \in DocVerdicts
            wait == \/ "major" \in DocIssueSeverities \cup CrossRefSeverities
                    \/ "WAIT" \in DocVerdicts
                    \/ VerdictIn.crossRefIssues # <<>>
        IN  /\ (VerdictOut.overallVerdict = "NO_GO") <=> stop
            /\ (VerdictOut.overallVerdict = "WAIT") <=> (~stop /\ wait)
            /\ (VerdictOut.overallVerdict = "GO") <=> (~stop /\ ~wait)

\* A critical cross-reference issue next to a major and a minor
\* document-level issue: the verdict is NO_GO.
C1_Witness ==
    /\ verdict # None
    /\ "critical" \in CrossRefSeverities
    /\ {"major", "minor"} \subseteq DocIssueSeverities
    /\ VerdictOut.overallVerdict = "NO_GO"

\* C10 as stated: any issue at all, minor document-level issues included,
\* keeps the verdict from being GO.
C10_AnyIssueBlocksGo ==
    verdict # None =>
        (DocIssueSeverities \cup CrossRefSeverities # {}
            => VerdictOut.overallVerdict # "GO")

\* C10 as amended: the verdict is GO exactly when there is no
\* cross-reference issue, no critical or major document-level issue and no
\* document verdict WAIT or NO_GO; minor document-level issues do not count.
C10_GoIffNothingAboveMinor ==
    verdict # None =>
        ((VerdictOut.overallVerdict = "GO") <=>
            /\ VerdictIn.crossRefIssues = <<>>
            /\ DocIssueSeverities \subseteq {"minor"}
            /\ DocVerdicts \cap {"WAIT", "NO_GO"} = {})

\* A document whose verdict is GO carries a minor issue and the package
\* verdict is GO.
C10_Witness ==
    /\ verdict # None
    /\ "minor" \in DocIssueSeverities
    /\ VerdictOut.overallVerdict = "GO"

-----------------------------------------------------------------------------
(* Claims on the whole workflow (Spec, SpecSched).                          *)

Docs == 1..Len(documents)

\* C2: whatever the extraction collaborator does for a document, analyze-doc
\* yields a valid DocumentResult for it (verdict GO, WAIT or NO_GO) and the
\* run is not aborted by it.
C2_AnalyzeNeverAborts ==
    \A i \in 1..Len(status) :
        /\ status[i] # "failed"
        /\ status[i] = "done" => IsDocumentResult(analyzed[i][1])

\* C4: once record-package has run, the workflow has completed and returns
\* the overallVerdict, crossReferenceIssues, recommendation and paymentMode
\* of final-verdict, whether or not the embedding request or the insert
\* failed.
C4_PersistenceFailureNotFatal ==
    persistence.insert # "not_called" =>
        /\ pc = "success"
        /\ output # None
        /\ output[1].overallVerdict = verdict[1].overallVerdict
        /\ output[1].crossReferenceIssues = verdict[1].crossReferenceIssues
        /\ output[1].recommendation = verdict[1].recommendation
        /\ output[1].paymentMode = verdict[1].paymentMode

\* C7: paymentMode is lc exactly when the input package holds a
\* letter_of_credit document, no_lc otherwise; cross-reference computes it
\* and final-verdict and record-package hand it on unchanged.
C7_PaymentMode ==
    LET expected == IF \E i \in Docs : documents[i].type = "letter_of_credit"
                    THEN "lc" ELSE "no_lc"
    IN  /\ xref # None => xref[1].paymentMode = expected
        /\ verdict # None => verdict[1].paymentMode = expected
        /\ output # None => output[1].paymentMode = expected

\* A completed run on a package whose letter of credit is not the first
\* document.
C7_Witness ==
    /\ pc = "success"
    /\ output # None
    /\ output[1].paymentMode = "lc"
    /\ documents[1].type # "letter_of_credit"

\* Where a run can be, in the order the workflow chains its steps.
StepRank(p) ==
    CASE p = "prepare-docs"    -> 1
      [] p = "analyze-doc"     -> 2
      [] p = "cross-reference" -> 3
      [] p = "final-verdict"   -> 4
      [] p = "record-package"  -> 5
      [] p = "success"         -> 6
      [] p = "failed"          -> 7

AllAnalyzed ==
    /\ Len(status) = Len(documents)
    /\ \A i \in Docs : status[i] = "done" /\ analyzed[i] # None

C5_StateOrder ==
    /\ Cardinality(Running) <= 5
    /\ pc = "prepare-docs" => status = <<>> /\ xref = None
    /\ pc = "analyze-doc" => xref = None
    /\ pc \in {"cross-reference", "final-verdict", "record-package", "success"}
          => AllAnalyzed
    /\ xref # None => AllAnalyzed
    /\ verdict # None => xref # None
    /\ output # None => verdict # None
    /\ pc = "final-verdict" => xref # None /\ verdict = None
    /\ pc = "record-package" => verdict # None /\ output = None

\* C5: the steps run in the order prepare-docs, analyze-doc (once per
\* document), cross-reference, final-verdict, record-package; cross-reference
\* never starts before every document has a completed result; never more
\* than 5 analyze-doc calls are in flight.
C5_StepOrder ==
    /\ []C5_StateOrder
    /\ [][/\ pc' # pc =>
                \/ pc' = "failed"
                \/ StepRank(pc') = StepRank(pc) + 1
                \/ pc = "prepare-docs" /\ pc' = "cross-reference" /\ documents = <<>>
          /\ \A i \in 1..Len(status) :
                /\ status[i] = "done" => status'[i] = "done" /\ analyzed'[i] = analyzed[i]
                /\ status[i] = "running" => status'[i] # "pending"]_vars

\* Five calls in flight while a sixth document waits.
C5_Witness ==
    /\ pc = "analyze-doc"
    /\ Cardinality(Running) = 5
    /\ \E i \in Docs : status[i] = "pending"

-----------------------------------------------------------------------------
(* Claims on cross-reference (SpecXref).                                    *)

\* The package cross-reference was given and the issues it returned.
Package == [i \in 1..Len(analyzed) |-> analyzed[i][1]]
CrossRefIssues == xref[1].crossRefIssues
IssuesOf(field) == SelectSeq(CrossRefIssues, LAMBDA issue : issue.field = field)

SpecifiedGoods(type) ==
    {i \in 1..Len(Package) :
        /\ Package[i].type = type
        /\ isSpecified(Package[i].extractedData.goodsDescription)}

\* The comparator call for document i did not give an answer.
ComparatorFailed(i) ==
    \/ ~comparator.agent
    \/ comparator.calls[i] \in {"error", "unparseable"}

FailedComparison ==
    /\ SpecifiedGoods("letter_of_credit") # {}
    /\ \E i \in SpecifiedGoods("commercial_invoice")
              \cup SpecifiedGoods("bill_of_lading")
              \cup SpecifiedGoods("packing_list") : ComparatorFailed(i)

\* C3: when the LC and an invoice, bill of lading or packing list carry a
\* specified goods description and the comparator call for one of these
\* documents fails, cross-reference emits a goodsDescription issue and the
\* package verdict is not GO.
C3_ComparatorFailsClosed ==
    (xref # None /\ FailedComparison) =>
        /\ Len(IssuesOf("goodsDescription")) > 0
        /\ verdict # None => verdict[1].overallVerdict # "GO"

\* The agent is there, the call for a document rejects or its reply does not
\* parse, and the verdict has been given.
C3_Witness ==
    /\ verdict # None
    /\ FailedComparison
    /\ comparator.agent
    /\ Len(IssuesOf("goodsDescription")) = 1
    /\ verdict[1].overallVerdict # "GO"

\* The extracted fields each rule reads, by the document type it reads them
\* from.
Reads(field) ==
    CASE field = "amount" ->
            {<<"letter_of_credit", "amount">>, <<"commercial_invoice", "amount">>}
      [] field = "dates" ->
            {<<"letter_of_credit", "expiryDate">>, <<"bill_of_lading", "shipmentDate">>}
      [] field = "lcExpiry" -> {<<"letter_of_credit", "expiryDate">>}
      [] field = "lateShipment" ->
            {<<"letter_of_credit", "latestShipmentDate">>,
             <<"bill_of_lading", "shipmentDate">>}
      [] field = "goodsDescription" ->
            {<<t, "goodsDescription">> : t \in goodsDescRelevantDocTypes}
      [] field = "inspectionCompany" ->
            {<<"letter_of_credit", "requiredInspectionCompany">>,
             <<"inspection_certificate", "inspectionCompany">>}
      [] field = "consignee" ->
            {<<"letter_of_credit", "issuingBank">>, <<"bill_of_lading", "consignee">>}
      [] field = "vesselName" ->
            {<<"letter_of_credit", "vesselName">>, <<"bill_of_lading", "vesselName">>}
      [] field = "insuranceValue" ->
            {<<"insurance_certificate", "insuredValue">>,
             <<"commercial_invoice", "amount">>, <<"letter_of_credit", "amount">>}
      [] field = "freightNotation" ->
            {<<"letter_of_credit", "freightNotation">>,
             <<"bill_of_lading", "freightNotation">>}
      [] field = "carrierSignature" -> {<<"bill_of_lading", "carrierSignature">>}
      [] field = "carrierName" -> {<<"bill_of_lading", "carrierName">>}
      [] field = "shippedOnBoard" -> {<<"bill_of_lading", "shippedOnBoard">>}
      [] field = "customsReadiness" -> {}

\* Document d supplies a non-empty value for extracted field f.
Supplies(d, f) ==
    IF f \in {"carrierSignature", "shippedOnBoard"}
    THEN d.extractedData[f] # "undefined"
    ELSE d.extractedData[f] # Null /\ d.extractedData[f] # <<>>

\* The documents of the package that supply a value the rule of this field
\* reads.
Suppliers(field) ==
    {i \in 1..Len(Package) :
        \E r \in Reads(field) : Package[i].type = r[1] /\ Supplies(Package[i], r[2])}

ComparedFields ==
    {"amount", "dates", "lateShipment", "goodsDescription", "inspectionCompany",
     "consignee", "vesselName", "insuranceValue", "freightNotation"}
SingleDocumentFields == {"lcExpiry", "carrierSignature", "shippedOnBoard"}
AbsenceFields == {"carrierName", "customsReadiness"}

LcSpecificFields ==
    {"dates", "lcExpiry", "lateShipment", "consignee", "inspectionCompany",
     "insuranceValue", "freightNotation", "vesselName"}

\* C8: in no_lc mode no issue of an LC-specific rule is emitted, in lc mode
\* no customsReadiness issue.
C8_RuleSetsExclusive ==
    xref # None =>
        \A k \in 1..Len(CrossRefIssues) :
            /\ xref[1].paymentMode = "no_lc"
                  => CrossRefIssues[k].field \notin LcSpecificFields
            /\ xref[1].paymentMode = "lc"
                  => CrossRefIssues[k].field # "customsReadiness"

\* A no_lc package whose insurance covers less than 110% of its invoice: the
\* insurance rule would have something to report, and only customsReadiness
\* issues come out.
C8_Witness ==
    /\ xref # None
    /\ xref[1].paymentMode = "no_lc"
    /\ \E i, j \in 1..Len(Package) :
          /\ Package[i].type = "insurance_certificate"
          /\ Package[j].type = "commercial_invoice"
          /\ extractAmount(Package[i].extractedData.insuredValue) # NoNumber
          /\ extractAmount(Package[j].extractedData.amount) # NoNumber
          /\ extractAmount(Package[i].extractedData.insuredValue) * 100
                < extractAmount(Package[j].extractedData.amount) * 110
    /\ Len(CrossRefIssues) > 0
    /\ \A k \in 1..Len(CrossRefIssues) : CrossRefIssues[k].field = "customsReadiness"

\* The four document types a no_lc package is expected to hold, with the
\* value and severity of the issue for a missing one.
Expected ==
    {[type |-> "commercial_invoice", value |-> "Missing Commercial Invoice",
      severity |-> "critical"],
     [type |-> "bill_of_lading", value |-> "Missing Bill of Lading",
      severity |-> "critical"],
     [type |-> "certificate_of_origin", value |-> "Missing Certificate of Origin",
      severity |-> "major"],
     [type |-> "packing_list", value |-> "Missing Packing List",
      severity |-> "major"]}

PackageTypes == {Package[i].type : i \in 1..Len(Package)}

\* C9: in no_lc mode there is exactly one customsReadiness issue for each
\* expected document type absent from the package and none for a type that
\* is present: critical for the invoice and the bill of lading, major for
\* the certificate of origin and the packing list.
C9_CustomsReadiness ==
    (xref # None /\ xref[1].paymentMode = "no_lc") =>
        LET found == IssuesOf("customsReadiness")
            For(e) == {k \in 1..Len(found) : found[k].values = <<e.value>>}
        IN  /\ \A e \in Expected :
                  /\ Cardinality(For(e)) = IF e.type \in PackageTypes THEN 0 ELSE 1
                  /\ \A k \in For(e) : found[k].severity = e.severity
            /\ \A k \in 1..Len(found) : \E e \in Expected : k \in For(e)

\* A package of an invoice and a bill of lading only: two customsReadiness
\* issues, both major.
C9_Witness ==
    /\ xref # None
    /\ PackageTypes = {"commercial_invoice", "bill_of_lading"}
    /\ Len(IssuesOf("customsReadiness")) = 2
    /\ \A k \in 1..2 : IssuesOf("customsReadiness")[k].severity = "major"

-----------------------------------------------------------------------------
(* Claims on the recommendation (SpecVerdict).                              *)

\* The descriptions of the issues of one severity in the input of
\* final-verdict, document-level and cross-reference alike.
DescriptionsOf(severity) ==
    UNION {{i.description : i \in {j \in Range(d.issues) : j.severity = severity}}
           : d \in Range(VerdictIn.documentResults)}
    \cup {i.description : i \in {j \in Range(VerdictIn.crossRefIssues) :
                                      j.severity = severity}}

\* C11: when the verdict is NO_GO the recommendation holds the description
\* of every critical issue and names at least one triggering issue; when it
\* is WAIT the recommendation holds the description of every major issue.
C11_RecommendationExplains ==
    verdict # None =>
        LET named == Range(VerdictOut.recommendation.issues) IN
        /\ VerdictOut.overallVerdict = "NO_GO" =>
              /\ DescriptionsOf("critical") \subseteq named
              /\ named # {}
        /\ VerdictOut.overallVerdict = "WAIT" =>
              DescriptionsOf("major") \subseteq named

-----------------------------------------------------------------------------
(* Claims on the quantity rule (SpecQty).                                   *)

\* The documents that supply a positive quantity, and the first of them.
QuantityBearing ==
    {i \in 1..Len(Package) :
        /\ isSpecified(Package[i].extractedData.quantity)
        /\ extractQty(Package[i].extractedData.quantity) > 0}
QuantityOf(i) == extractQty(Package[i].extractedData.quantity)
FirstQuantityBearing == CHOOSE i \in QuantityBearing : \A j \in QuantityBearing : i <= j

\* The percentage (in hundredths) the first LC of the package states, for
\* the tolerance texts of the sample documents; 0 when it states none.
StatedTolerance ==
    LET lcs == {i \in 1..Len(Package) : Package[i].type = "letter_of_credit"}
        tolStr == IF lcs = {} THEN Null
                  ELSE Package[CHOOSE i \in lcs : \A j \in lcs : i <= j]
                           .extractedData.quantityTolerance
    IN  IF tolStr = <<"+", "/", "-", " ", "1", "0", "%">> THEN 1000
        ELSE IF tolStr = <<"2", ".", "5", " ", "P", "C", "T", " ", "M", "O", "R", "E", " ", "O", "R", " ", "L", "E", "S", "S">> THEN 250
        ELSE 0

\* Document i is outside tolerance t (a percentage in hundredths) of the
\* first quantity-bearing document.
OutsideTolerance(i, t) ==
    LET ref == QuantityOf(FirstQuantityBearing)
    IN  Abs(QuantityOf(i) - ref) * 10000 > t * ref

\* C12: with at least two documents supplying a positive quantity, the
\* tolerance is the percentage the LC states, else 5%; no quantity issue is
\* emitted when every quantity is within it of the first quantity, exactly
\* one major issue when some quantity is outside it, and the description
\* names where the tolerance comes from.
C12_QuantityTolerance ==
    (xref # None /\ Cardinality(QuantityBearing) >= 2) =>
        LET t == IF StatedTolerance # 0 THEN StatedTolerance ELSE 500
            source == IF StatedTolerance # 0 THEN "LC specified"
                      ELSE "UCP 600 default 5%"
            found == IssuesOf("quantity")
        IN  IF \E i \in QuantityBearing : OutsideTolerance(i, t)
            THEN /\ Len(found) = 1
                 /\ found[1].severity = "major"
                 /\ found[1].description[2] = source
            ELSE Len(found) = 0

-----------------------------------------------------------------------------
(* Claims on the amount rule (SpecAmt).                                     *)

\* The amount, in hundredths, that the first document of a type states; 0
\* when there is no such document or it states none.
StatedAmount(type) ==
    LET ds == {i \in 1..Len(Package) : Package[i].type = type}
        a  == IF ds = {} THEN Null
              ELSE Package[CHOOSE i \in ds : \A j \in ds : i <= j].extractedData.amount
    IN  IF a = <<"U", "S", "D", " ", "1", "6", "2", ",", "5", "0", "0", ".", "0", "0">> THEN 16250000
        ELSE IF a = <<"U", "S", "D", " ", "1", "5", "0", ",", "0", "0", "0", ".", "0", "0">> THEN 15000000
        ELSE IF a = <<"U", "S", "D", " ", "1", "4", "9", ",", "9", "9", "9", ".", "9", "9">> THEN 14999999
        ELSE 0

-----------------------------------------------------------------------------
(* Claims on the port rule (SpecPorts).                                     *)

\* The port-bearing documents that specify this port field.
PortBearing(field) ==
    {i \in 1..Len(Package) :
        /\ Package[i].type \in portRelevantDocTypes
        /\ isSpecified(Package[i].extractedData[field])}

\* C14: for port of loading and for port of discharge, whenever two
\* port-bearing documents of the package specify values that do not match
\* under portsMatch, a major issue for that field is emitted, wherever the
\* two documents stand in the input list.
C14_AnyPortPairMismatch ==
    xref # None =>
        \A field \in {"portOfLoading", "portOfDischarge"} :
            (\E i, j \in PortBearing(field) :
                ~portsMatch(Package[i].extractedData[field],
                            Package[j].extractedData[field]))
            => /\ Len(IssuesOf(field)) > 0
               /\ \A k \in 1..Len(IssuesOf(field)) :
                      IssuesOf(field)[k].severity = "major"

-----------------------------------------------------------------------------
(* Claims on the LC date checks (SpecDates).                                *)

\* The value of a field in the first document of a type; Null without one.
FirstValue(type, field) ==
    LET ds == {i \in 1..Len(Package) : Package[i].type = type}
    IN  IF ds = {} THEN Null
        ELSE Package[CHOOSE i \in ds : \A j \in ds : i <= j].extractedData[field]

\* The day of February 2026 a date of the sample documents names; 0 for a
\* date that is absent or is no date.
StatedDay(d) ==
    IF d = <<"2", "0", "2", "6", "-", "0", "2", "-", "1", "0">> THEN 10
    ELSE IF d = <<"2", "0", "2", "6", "-", "0", "2", "-", "1", "1">> THEN 11
    ELSE IF d = <<"2", "0", "2", "6", "-", "0", "2", "-", "1", "2">> THEN 12
    ELSE IF d = <<"2", "0", "2", "6", "-", "0", "2", "-", "1", "3">> THEN 13
    ELSE IF d = <<"2", "0", "2", "6", "-", "0", "2", "-", "1", "7">> THEN 17
    ELSE IF d = <<"2", "0", "2", "6", "-", "0", "2", "-", "2", "0">> THEN 20
    ELSE 0

LcMode == \E i \in 1..Len(Package) : Package[i].type = "letter_of_credit"

\* C15: in lc mode, with the B/L shipment date and the LC expiry date
\* (latest-shipment date) both present and valid, one critical dates
\* (lateShipment) issue is emitted exactly when the shipment date is after
\* that LC date; a shipment on or before it gives none.
C15_ShipmentAgainstLcDates ==
    (xref # None /\ LcMode) =>
        LET ship   == StatedDay(FirstValue("bill_of_lading", "shipmentDate"))
            expiry == StatedDay(FirstValue("letter_of_credit", "expiryDate"))
            latest == StatedDay(FirstValue("letter_of_credit", "latestShipmentDate"))
            Critical(found) == Len(found) = 1 /\ found[1].severity = "critical"
        IN  /\ (ship > 0 /\ expiry > 0) =>
                IF ship > expiry THEN Critical(IssuesOf("dates"))
                ELSE Len(IssuesOf("dates")) = 0
            /\ (ship > 0 /\ latest > 0) =>
                IF ship > latest THEN Critical(IssuesOf("lateShipment"))
                ELSE Len(IssuesOf("lateShipment")) = 0

\* Shipped on the 11th under an LC with latest shipment on the 10th and
\* expiry on the 12th: a lateShipment issue and no dates issue.
C15_Witness ==
    /\ xref # None
    /\ LcMode
    /\ FirstValue("letter_of_credit", "expiryDate") = <<"2", "0", "2", "6", "-", "0", "2", "-", "1", "2">>
    /\ FirstValue("letter_of_credit", "latestShipmentDate") = <<"2", "0", "2", "6", "-", "0", "2", "-", "1", "0">>
    /\ FirstValue("bill_of_lading", "shipmentDate") = <<"2", "0", "2", "6", "-", "0", "2", "-", "1", "1">>
    /\ Len(IssuesOf("lateShipment")) = 1
    /\ Len(IssuesOf("dates")) = 0

\* C16: in lc mode one critical lcExpiry issue is emitted exactly when the
\* LC's expiry date is before today's date; an LC that expires today or
\* later gives none, at whatever time of day the step runs.
C16_ExpiredBeforeToday ==
    (xref # None /\ LcMode) =>
        LET expiry  == StatedDay(FirstValue("letter_of_credit", "expiryDate"))
            todayIs == IF today = DateValue(<<"2", "0", "2", "6", "-", "0", "2", "-", "1", "2">>) + 1 THEN 12 ELSE 17
        IN  expiry > 0 =>
                IF expiry < todayIs
                THEN /\ Len(IssuesOf("lcExpiry")) = 1
                     /\ IssuesOf("lcExpiry")[1].severity = "critical"
                ELSE Len(IssuesOf("lcExpiry")) = 0

-----------------------------------------------------------------------------
(* Claim on the severity of the goods-description issue (SpecXref).         *)

\* The comparison of document i with the LC did not end in a match.
FailedToMatch(i) == ComparatorFailed(i) \/ comparator.calls[i] = "mismatch"

\* C17: the goodsDescription issue is critical exactly when the commercial
\* invoice is among the documents whose description failed to match the
\* LC; when only the bill of lading or the packing list failed, by
\* comparator verdict or comparator failure, it is major.
C17_CriticalOnlyForInvoice ==
    xref # None =>
        \A k \in 1..Len(IssuesOf("goodsDescription")) :
            IssuesOf("goodsDescription")[k].severity =
                IF \E i \in SpecifiedGoods("commercial_invoice") : FailedToMatch(i)
                THEN "critical" ELSE "major"

-----------------------------------------------------------------------------
(* Claim on the packing-list weight verification (SpecPacking).             *)

RECURSIVE Sum(_)
Sum(weights) == IF weights = <<>> THEN 0 ELSE Head(weights) + Sum(Tail(weights))

\* C18: whenever the packing list supplies at least one line item and a
\* printed total net weight, one critical packingListMath issue is emitted
\* exactly when the sum of the line items' net weights differs from the
\* printed total by more than 1 kg.
C18_PackingListMath ==
    xref # None =>
        LET items == FirstValue("packing_list", "packingListItems")
            total == FirstValue("packing_list", "packingListTotalNet")
            found == IssuesOf("packingListMath")
        IN  (/\ \E i \in 1..Len(Package) : Package[i].type = "packing_list"
             /\ items # None /\ Len(items[1]) > 0 /\ total # NoNumber)
            => IF Sum(items[1]) - total > 100 \/ total - Sum(items[1]) > 100
               THEN Len(found) = 1 /\ found[1].severity = "critical"
               ELSE Len(found) = 0

-----------------------------------------------------------------------------
(* Claims on the clean LC + B/L package (SpecClean).                        *)

\* The day of February 2026 the cross-reference step ran on.
DayToday == IF today = DateValue(<<"2", "0", "2", "6", "-", "0", "2", "-", "1", "2">>) + 1 THEN 12 ELSE 17

\* Every field the two documents share agrees: the sample documents carry
\* agreeing ports, quantities and vessel names, and where both describe the
\* goods the comparator was there and answered that they match.
SharedFieldsAgree ==
    (SpecifiedGoods("letter_of_credit") # {} /\ SpecifiedGoods("bill_of_lading") # {})
    => /\ comparator.agent
       /\ \A i \in SpecifiedGoods("bill_of_lading") : comparator.calls[i] = "match"

NoIssuesAndGo ==
    /\ Len(CrossRefIssues) = 0
    /\ verdict[1].overallVerdict = "GO"

BlNamesCarrier == FirstValue("bill_of_lading", "carrierName") # Null

BlFlagsNotFalse ==
    /\ FirstValue("bill_of_lading", "carrierSignature") # "false"
    /\ FirstValue("bill_of_lading", "shippedOnBoard") # "false"

ToOrderOfIssuingBank ==
    \/ FirstValue("letter_of_credit", "issuingBank") = Null
    \/ FirstValue("bill_of_lading", "consignee") = <<"T", "O", " ", "O", "R", "D", "E", "R", " ", "O", "F", " ", "E", "M", "I", "R", "A", "T", "E", "S", " ", "N", "B", "D">>

ShippedInTime ==
    LET ship   == StatedDay(FirstValue("bill_of_lading", "shipmentDate"))
        expiry == StatedDay(FirstValue("letter_of_credit", "expiryDate"))
        latest == StatedDay(FirstValue("letter_of_credit", "latestShipmentDate"))
    IN  ship > 0 => /\ (expiry > 0 => ship <= expiry)
                    /\ (latest > 0 => ship <= latest)

ExpiresAfterToday ==
    LET expiry == StatedDay(FirstValue("letter_of_credit", "expiryDate"))
    IN  expiry > 0 => expiry > DayToday

-----------------------------------------------------------------------------
(* Claim on the deterministic date override (Spec).                         *)

DateFields == {"latestShipmentDate", "expiryDate", "shipmentDate"}

\* What the scan of a sample text yields for a date field: the labelled
\* text carries a latest-shipment date of 2026-02-10, an expiry date of
\* 15/02/2026 and no shipped-on-board date; Null stands for nothing.
Scanned(text, field) ==
    IF text = LabelledText /\ field = "latestShipmentDate" THEN <<"2", "0", "2", "6", "-", "0", "2", "-", "1", "0">>
    ELSE IF text = LabelledText /\ field = "expiryDate" THEN <<"2", "0", "2", "6", "-", "0", "2", "-", "1", "5">>
    ELSE Null

\* What the collaborator returned for a date field; Null for nothing.
Returned(reply, field) ==
    IF reply.kind = "text" /\ reply.json = "object" /\ reply.parsed.extractedData # None
    THEN reply.parsed.extractedData[1][field]
    ELSE Null

\* C20: for each of the three date fields of each analysed document, the
\* field equals the date the scan of the document's text yields whenever
\* it yields one, whatever the collaborator returned; when the scan yields
\* nothing, the collaborator's value (if any) is kept.
C20_ScanOverridesCollaborator ==
    \A i \in 1..Len(analyzed) : analyzed[i] # None =>
        \A field \in DateFields :
            analyzed[i][1].extractedData[field] =
                IF Scanned(documents[i].text, field) # Null
                THEN Scanned(documents[i].text, field)
                ELSE Returned(extractorReply[i], field)

\* A document whose text carries the expiry date 15/02/2026 and for which
\* the collaborator returned 2026-03-01 holds 2026-02-15, and one without
\* labels keeps what the collaborator returned.
C20_Witness ==
    /\ \E i \in 1..Len(analyzed) :
          /\ analyzed[i] # None
          /\ documents[i].text = LabelledText
          /\ Returned(extractorReply[i], "expiryDate") = <<"2", "0", "2", "6", "-", "0", "3", "-", "0", "1">>
          /\ analyzed[i][1].extractedData.expiryDate = <<"2", "0", "2", "6", "-", "0", "2", "-", "1", "5">>
    /\ \E j \in 1..Len(analyzed) :
          /\ analyzed[j] # None
          /\ documents[j].text = NoLabels
          /\ analyzed[j][1].extractedData.expiryDate = <<"2", "0", "2", "6", "-", "0", "3", "-", "0", "1">>

-----------------------------------------------------------------------------
(* Claim on the document results after the analyze step (Spec).             *)

\* What analyze-doc returned for document i.
Produced(i) == analyzeDocExecute(docInputs[i], extractorReply[i]).value[1]

\* C21: once the analyze step has produced the DocumentResults, the outputs
\* of cross-reference, final-verdict and record-package carry them
\* unchanged, element by element and field by field, the three overridden
\* date fields included.
C21_ResultsUnchanged ==
    LET SameAsProduced(documentResults) ==
            /\ Len(documentResults) = Len(documents)
            /\ \A i \in 1..Len(documents) : documentResults[i] = Produced(i)
    IN  /\ xref # None => SameAsProduced(xref[1].documentResults)
        /\ verdict # None => SameAsProduced(verdict[1].documentResults)
        /\ output # None => SameAsProduced(output[1].documentResults)

\* The workflow has returned, and a document whose expiry date the scan
\* overrode and one that kept the collaborator's date are in its output.
C21_Witness ==
    /\ output # None
    /\ \E i, j \in 1..Len(documents) :
          /\ documents[i].text = LabelledText
          /\ Returned(extractorReply[i], "expiryDate") = <<"2", "0", "2", "6", "-", "0", "3", "-", "0", "1">>
          /\ output[1].documentResults[i].extractedData.expiryDate = <<"2", "0", "2", "6", "-", "0", "2", "-", "1", "5">>
          /\ documents[j].text = NoLabels
          /\ output[1].documentResults[j].extractedData.expiryDate = <<"2", "0", "2", "6", "-", "0", "3", "-", "0", "1">>

-----------------------------------------------------------------------------
(* Claim on the "not specified" sentinels (SpecSentinel).                   *)

\* The sentinels the sample documents carry.
IsSentinel(value) ==
    value \in {<<>>, <<"N", "/", "A">>, <<"n", "/", "a">>, <<"N", "A">>, <<"n", "o", "t", " ", "s", "p", "e", "c", "i", "f", "i", "e", "d">>, <<"N", "o", "t", " ", "A", "p", "p", "l", "i", "c", "a", "b", "l", "e">>,
               <<"-">>}

\* The extracted fields the rule of an issue field compares in a package of
\* an LC and a B/L.
ComparedIn(field) ==
    IF field \in {"portOfLoading", "portOfDischarge", "quantity"}
    THEN {<<t, field>> : t \in {"letter_of_credit", "bill_of_lading"}}
    ELSE Reads(field)

\* C22: a field that holds a sentinel is absent for every cross-reference
\* rule: the rule that would compare it emits no issue.
C22_SentinelsAreAbsent ==
    xref # None =>
        \A field \in {"consignee", "vesselName", "freightNotation",
                      "goodsDescription", "portOfLoading", "quantity"} :
            (\E r \in ComparedIn(field) :
                /\ \E i \in 1..Len(Package) : Package[i].type = r[1]
                /\ IsSentinel(FirstValue(r[1], r[2])))
            => Len(IssuesOf(field)) = 0

-----------------------------------------------------------------------------
(* Claims on the number of issues per rule (SpecMulti).                     *)

IssueFields == {CrossRefIssues[k].field : k \in 1..Len(CrossRefIssues)}

\* How many documents of the package are of one of these types.
CountOf(types) == Cardinality({i \in 1..Len(Package) : Package[i].type \in types})

\* How many of these types the package holds.
KindsOf(types) == Cardinality({t \in types : CountOf({t}) > 0})

\* C23 as stated: the output holds at most one issue per field name.
C23_AtMostOnePerField ==
    xref # None => \A field \in IssueFields : Len(IssuesOf(field)) <= 1

\* C23, amended: the output holds at most one issue per field name, except
\* customsReadiness, with one issue per required document type the package
\* lacks, inspectionCompany, with at most one per inspection document, and
\* documentDating, with at most one per kind of certificate.
C23_OnePerFieldExceptPerDocumentRules ==
    xref # None =>
        /\ \A field \in IssueFields \ {"customsReadiness", "inspectionCompany",
                                       "documentDating"} :
              Len(IssuesOf(field)) <= 1
        /\ Len(IssuesOf("customsReadiness")) =
              IF LcMode THEN 0
              ELSE 4 - KindsOf({"commercial_invoice", "bill_of_lading",
                                "certificate_of_origin", "packing_list"})
        /\ Len(IssuesOf("inspectionCompany")) <=
              CountOf({"inspection_certificate", "certificate_of_quality",
                       "certificate_of_quantity"})
        /\ Len(IssuesOf("documentDating")) <=
              KindsOf({"inspection_certificate", "certificate_of_origin",
                       "certificate_of_quality"})

\* An LC, a B/L and two certificates: two inspectionCompany issues and two
\* documentDating issues in one run.
C23_Witness ==
    /\ xref # None
    /\ Len(IssuesOf("inspectionCompany")) = 2
    /\ Len(IssuesOf("documentDating")) = 2
    /\ Len(IssuesOf("carrierName")) = 0

-----------------------------------------------------------------------------
(* Claim on the documents and values of an issue (SpecDates).               *)

\* C24: in every cross-reference issue, documents and values are parallel:
\* they have the same length, one value for each document named.
C24_DocumentsAndValuesParallel ==
    xref # None =>
        \A k \in 1..Len(CrossRefIssues) :
            Len(CrossRefIssues[k].documents) = Len(CrossRefIssues[k].values)

-----------------------------------------------------------------------------
(* Claim on the carrier checks in either payment mode (SpecXref).           *)

\* C25: whenever the package holds a bill of lading, a carrierSignature
\* flag that is explicitly false gives a critical carrierSignature issue
\* and a B/L that names no carrier gives a major carrierName issue, with or
\* without a letter of credit in the package.
C25_CarrierChecksInAnyMode ==
    (xref # None /\ \E i \in 1..Len(Package) : Package[i].type = "bill_of_lading") =>
        /\ FirstValue("bill_of_lading", "carrierSignature") = "false" =>
              /\ Len(IssuesOf("carrierSignature")) = 1
              /\ IssuesOf("carrierSignature")[1].severity = "critical"
        /\ FirstValue("bill_of_lading", "carrierName") = Null =>
              /\ Len(IssuesOf("carrierName")) = 1
              /\ IssuesOf("carrierName")[1].severity = "major"
-----------------------------------------------------------------------------
\* C26: the cross-reference step always eventually completes: whenever the
\* workflow is at cross-reference, it later reaches final-verdict and a
\* verdict is returned, even when a comparator call never responds.
C26_CrossReferenceCompletes ==
    (pc = "cross-reference") ~> (xref # None /\ verdict # None)
-----------------------------------------------------------------------------
(* Claims on the concurrent comparator calls (SpecCompare).                 *)

\* The compared documents whose description failed to match the LC's, in
\* input-document order, and what each contributes to the issue.
Mismatching == SelectSeq(DocsToCompare(Package), LAMBDA i : FailedToMatch(i))
ReasonOf(i) == compareGoodsDescriptions(comparator.agent, comparator.calls[i]).reason
SeverityOf(i) ==
    IF Package[i].type \in {"commercial_invoice", "packing_list"}
    THEN "critical" ELSE "major"

\* C30: the cross-reference output does not depend on the order in which the
\* comparator calls settle: for the documents and comparator answers of the
\* run it is the issue list of the run whose calls settle in input order;
\* it holds at most one goodsDescription issue, present exactly when some
\* compared document mismatches, whose description lists the reasons in
\* input-document order and whose severity is the highest among the
\* mismatching documents; and while calls are awaited the step has output
\* nothing and has pushed no issue beyond those of the rules that ran before.
C30_SettlingOrderIrrelevant ==
    /\ pc = "awaiting-comparisons" =>
          /\ xref = None
          /\ \E rounding \in Roundings(Package) :
                issuesSoFar = IssuesBeforeComparisons(Package, PaymentModeOf(Package),
                                                      today, rounding)
    /\ (xref # None /\ Len(settled) = Len(DocsToCompare(Package))) =>
          LET found == IssuesOf("goodsDescription") IN
          /\ \E rounding \in Roundings(Package), sumRounding \in SumRoundings(Package) :
                CrossRefIssues
                    = crossReferenceExecute(Package, today, comparator,
                                            DocsToCompare(Package), rounding,
                                            sumRounding).crossRefIssues
          /\ Len(found) = IF Len(Mismatching) > 0 THEN 1 ELSE 0
          /\ \A k \in 1..Len(found) :
                /\ found[k].description
                      = [j \in 1..Len(Mismatching) |-> ReasonOf(Mismatching[j])]
                /\ found[k].severity
                      = IF \E j \in 1..Len(Mismatching) :
                              SeverityOf(Mismatching[j]) = "critical"
                        THEN "critical" ELSE "major"

\* An LC, an invoice and a bill of lading; the call for the bill of lading
\* rejected and settled first, the call for the invoice answered "no match"
\* and settled second; the one issue names the invoice's reason first.
C30_Witness ==
    /\ xref # None
    /\ Len(Package) = 3
    /\ Package[1].type = "letter_of_credit"
    /\ Package[2].type = "commercial_invoice"
    /\ Package[3].type = "bill_of_lading"
    /\ comparator.agent
    /\ comparator.calls[2] = "mismatch"
    /\ comparator.calls[3] = "error"
    /\ settled = <<3, 2>>
    /\ Len(IssuesOf("goodsDescription")) = 1
    /\ IssuesOf("goodsDescription")[1].description = <<ReasonOf(2), ReasonOf(3)>>
    /\ ReasonOf(2) # ReasonOf(3)
    /\ IssuesOf("goodsDescription")[1].severity = "critical"
-----------------------------------------------------------------------------
(* Claims on the matching helpers (SpecMatch).                              *)

\* C27: portsMatch and namesMatch are symmetric: a call with arguments a and
\* b returns what the call with arguments b and a returns.
C27_MatchersSymmetric ==
    (returned # None /\ invoked[1].fn \in {"portsMatch", "namesMatch"}) =>
        LET a == invoked[1].args[1]
            b == invoked[1].args[2]
        IN  returned[1] = Apply([fn |-> invoked[1].fn, args |-> <<b, a>>])

\* namesMatch has returned true for a short name and a longer one that
\* contains it, which neither equals once reduced to letters and digits.
C27_Witness ==
    /\ returned = Some(TRUE)
    /\ invoked[1].fn = "namesMatch"
    /\ extractCoreName(invoked[1].args[1]) # <<>>
    /\ extractCoreName(invoked[1].args[1]) # extractCoreName(invoked[1].args[2])
    /\ ~Includes(extractCoreName(invoked[1].args[1]), extractCoreName(invoked[1].args[2]))
    /\ Includes(extractCoreName(invoked[1].args[2]), extractCoreName(invoked[1].args[1]))
-----------------------------------------------------------------------------
(* Claims on parseToISODate (SpecParse).                                    *)

ParsedText == invoked[1].args[1]

\* C28: parseToISODate returns null or a string of the form YYYY-MM-DD; an
\* argument already of that form comes back unchanged; a calendar date
\* written in any of the supported formats (numeric day first with "/" or
\* "-", month names in full or in three letters, day first or month first,
\* with or without a comma) parses to the date's ISO form; and parsing a
\* result that is not null returns that result.
C28_ParseContract ==
    (returned # None /\ invoked[1].fn = "parseToISODate") =>
        /\ returned[1] = Null \/ IsISODate(returned[1])
        /\ IsISODate(ParsedText) => returned[1] = ParsedText
        /\ \A date \in CalendarDates, f \in DateFormats :
              ParsedText = Render(date, f) => returned[1] = ISO(date)
        /\ returned[1] # Null => parseToISODate(returned[1]) = returned[1]
-----------------------------------------------------------------------------
(* Claims on the order of the quantities (SpecQty).                         *)

\* The package holds exactly these quantities (in hundredths), in this
\* order, and no tolerance stated by an LC applies.
QuantitiesAre(qs) ==
    /\ Len(Package) = Len(qs)
    /\ StatedTolerance = 0
    /\ \A k \in 1..Len(qs) : k \in QuantityBearing /\ QuantityOf(k) = qs[k]

\* C29: the quantity rule compares every quantity with that of the first
\* quantity-bearing document of the input list: one issue when some quantity
\* is outside the tolerance of the first, none when all are strictly within
\* it.  The result depends on the order: 100, 105, 110 under the 5% default
\* gives an issue, the same documents as 105, 100, 110 give none.
C29_FirstQuantityIsBaseline ==
    (xref # None /\ Cardinality(QuantityBearing) >= 2) =>
        LET t     == IF StatedTolerance # 0 THEN StatedTolerance ELSE 500
            ref   == QuantityOf(FirstQuantityBearing)
            found == IssuesOf("quantity")
        IN  /\ (\E i \in QuantityBearing : OutsideTolerance(i, t)) => Len(found) = 1
            /\ (\A i \in QuantityBearing :
                    Abs(QuantityOf(i) - ref) * 10000 < t * ref) => Len(found) = 0
            /\ QuantitiesAre(<<10000, 10500, 11000>>) => Len(found) = 1
            /\ QuantitiesAre(<<10500, 10000, 11000>>) => Len(found) = 0

\* 105, 100 and 110 in this order under the default tolerance: no issue,
\* although 110 is more than 5% above the 100 of the second document.
C29_Witness ==
    /\ xref # None
    /\ QuantitiesAre(<<10500, 10000, 11000>>)
    /\ Package[2].type = "letter_of_credit"
    /\ Len(IssuesOf("quantity")) = 0
    /\ Abs(QuantityOf(3) - QuantityOf(2)) * 10000 > 500 * QuantityOf(2)

====
